---- MODULE Spec2Model ----
(***************************************************************************)
(* Verification model of mcp-federation-core.                              *)
(*                                                                         *)
(*  - the converse router: OptimizedAPIManager (converse-mcp-enhanced/src/ *)
(*    server.py) with its OllamaManager probe (ollama_manager.py);         *)
(*  - the CircuitBreaker of kimi-k2-resilient-enhanced/server.py;          *)
(*  - the ParallelProcessor and the result cache of EnhancedDatabase of    *)
(*    the same file;                                                       *)
(*  - the response cache of ModelOptimizer (converse-mcp-enhanced/src/     *)
(*    optimizations.py).                                                   *)
(*                                                                         *)
(* Python strings are kept in the state as TLA+ strings; wherever the code *)
(* looks inside a string (lower(), startswith(), "x in s", replace())      *)
(* the model works on the string's characters, Chars(s).                   *)
(* Time is counted in minutes for the router, in seconds for the circuit   *)
(* breaker and in hours for the caches.                                    *)
(***************************************************************************)
EXTENDS Integers, Sequences, FiniteSets, TLC

\* ------------------------------------------------------------------ bounds
MaxTime == 5
MaxRemotes == 2
MaxSends == 2
MaxCalls == 7
MaxInflight == 2
MaxCbTime == 130
MaxJobs == 3
MaxLimit == 2
MaxBatches == 1
MaxDbTime == 24
MaxLookups == 3
MaxRequests == 3
MaxHooks == 2
MaxStores == 1
MaxInstalls == 2
MaxReuseSends == 3

\* --------------------------------------------------------- program constants
RateLimitMinutes == 5
RefreshIntervalMinutes == 5
failure_threshold == 5
timeout == 60
ttl_hours == 24

NONE == "<none>"

\* ------------------------------------------------------------ python strings
Chars(s) ==
    CASE s = "auto" -> <<"a","u","t","o">>
      [] s = "gpt-4" -> <<"g","p","t","-","4">>
      [] s = "claude-3-opus" -> <<"c","l","a","u","d","e","-","3","-","o","p","u","s">>
      [] s = "gemini-pro" -> <<"g","e","m","i","n","i","-","p","r","o">>
      [] s = "grok-1" -> <<"g","r","o","k","-","1">>
      [] s = "sonar" -> <<"s","o","n","a","r">>
      [] s = "llama3.2" -> <<"l","l","a","m","a","3",".","2">>
      [] s = "mystery" -> <<"m","y","s","t","e","r","y">>
      [] s = "llama3.2:3b" -> <<"l","l","a","m","a","3",".","2",":","3","b">>
      [] s = "phi3:mini" -> <<"p","h","i","3",":","m","i","n","i">>
      [] s = "codellama:7b" -> <<"c","o","d","e","l","l","a","m","a",":","7","b">>
      [] s = "qwen2.5-coder" -> <<"q","w","e","n","2",".","5","-","c","o","d","e","r">>
      [] s = "codellama" -> <<"c","o","d","e","l","l","a","m","a">>
      [] s = "429 Too Many Requests" -> <<"4","2","9"," ","T","o","o"," ","M","a","n","y"," ","R","e","q","u","e","s","t","s">>
      [] s = "Connection refused" -> <<"C","o","n","n","e","c","t","i","o","n"," ","r","e","f","u","s","e","d">>
      [] s = "What is 2+2?" -> <<"W","h","a","t"," ","i","s"," ","2","+","2","?">>
      [] s = "Write a Python function that reverses a string and add tests" -> <<"W","r","i","t","e"," ","a"," ","P","y","t","h","o","n"," ","f","u","n","c","t","i","o","n"," ","t","h","a","t"," ","r","e","v","e","r","s","e","s"," ","a"," ","s","t","r","i","n","g"," ","a","n","d"," ","a","d","d"," ","t","e","s","t","s">>
      [] s = "The answer is 4" -> <<"T","h","e"," ","a","n","s","w","e","r"," ","i","s"," ","4">>
      [] s = "claude" -> <<"c","l","a","u","d","e">>
      [] s = "opus" -> <<"o","p","u","s">>
      [] s = "sonnet" -> <<"s","o","n","n","e","t">>
      [] s = "gpt" -> <<"g","p","t">>
      [] s = "o3" -> <<"o","3">>
      [] s = "davinci" -> <<"d","a","v","i","n","c","i">>
      [] s = "gemini" -> <<"g","e","m","i","n","i">>
      [] s = "bison" -> <<"b","i","s","o","n">>
      [] s = "grok" -> <<"g","r","o","k">>
      [] s = "pplx" -> <<"p","p","l","x">>
      [] s = "rate" -> <<"r","a","t","e">>
      [] s = "429" -> <<"4","2","9">>
      [] s = "code" -> <<"c","o","d","e">>
      [] s = "function" -> <<"f","u","n","c","t","i","o","n">>
      [] s = "class" -> <<"c","l","a","s","s">>
      [] s = "def " -> <<"d","e","f"," ">>
      [] s = "import" -> <<"i","m","p","o","r","t">>
      [] s = "programming" -> <<"p","r","o","g","r","a","m","m","i","n","g">>
      [] s = "script" -> <<"s","c","r","i","p","t">>
      [] s = ":latest" -> <<":","l","a","t","e","s","t">>
      [] s = ":" -> <<":">>
      [] s = "ollama/" -> <<"o","l","l","a","m","a","/">>
      [] s = "ollama:" -> <<"o","l","l","a","m","a",":">>
      [] s = "local/" -> <<"l","o","c","a","l","/">>
      [] s = "local:" -> <<"l","o","c","a","l",":">>
      [] s = "ollama" -> <<"o","l","l","a","m","a">>
      [] s = "anthropic" -> <<"a","n","t","h","r","o","p","i","c">>
      [] s = "openai" -> <<"o","p","e","n","a","i">>
      [] s = "google" -> <<"g","o","o","g","l","e">>
      [] s = "All AI providers failed. Errors:" -> <<"A","l","l"," ","A","I"," ","p","r","o","v","i","d","e","r","s"," ","f","a","i","l","e","d","."," ","E","r","r","o","r","s",":">>
      [] s = "Check your API keys and network connection." -> <<"C","h","e","c","k"," ","y","o","u","r"," ","A","P","I"," ","k","e","y","s"," ","a","n","d"," ","n","e","t","w","o","r","k"," ","c","o","n","n","e","c","t","i","o","n",".">>
      [] s = ": " -> <<":"," ">>
      [] OTHER -> <<>>

LowerChar(c) ==
    CASE c = "C" -> "c" [] c = "M" -> "m" [] c = "R" -> "r" [] c = "T" -> "t"
      [] OTHER -> c

Lower(cs) == [i \in 1..Len(cs) |-> LowerChar(cs[i])]

StartsWith(cs, p) == Len(p) <= Len(cs) /\ SubSeq(cs, 1, Len(p)) = p

\* python: p in cs
Contains(cs, p) == \E i \in 0..(Len(cs) - Len(p)) : SubSeq(cs, i + 1, i + Len(p)) = p

RECURSIVE Strip(_)
Strip(cs) ==
    IF cs = <<>> THEN cs
    ELSE IF Head(cs) = " " THEN Strip(Tail(cs))
    ELSE IF cs[Len(cs)] = " " THEN Strip(SubSeq(cs, 1, Len(cs) - 1))
    ELSE cs

\* python: cs.replace(a, b) for a one-character a; b is a character sequence
RECURSIVE Replace(_, _, _)
Replace(cs, a, b) ==
    IF cs = <<>> THEN <<>>
    ELSE (IF Head(cs) = a THEN b ELSE <<Head(cs)>>) \o Replace(Tail(cs), a, b)

\* python: cs.split(':')[0]
RECURSIVE SplitFirst(_, _)
SplitFirst(cs, sep) ==
    IF cs = <<>> \/ Head(cs) = sep THEN <<>>
    ELSE <<Head(cs)>> \o SplitFirst(Tail(cs), sep)

\* the members of a list, and the first member of a list satisfying a test
Range(f) == {f[i] : i \in DOMAIN f}

\* -------------------------------------------------------------- the catalog
Remotes == {"anthropic", "openai", "google", "xai", "perplexity"}

ProviderNames == {"ollama"} \cup Remotes

\* ProviderConfig.priority: ollama 1, then priority_counter from 10 in the
\* order the keys are read
priority(p, configured) ==
    LET order == <<"anthropic", "openai", "google", "xai", "perplexity">>
        pos == CHOOSE i \in 1..5 : order[i] = p
    IN  IF p = "ollama" THEN 1
        ELSE 10 + Cardinality({j \in 1..(pos - 1) : order[j] \in configured})

\* ProviderConfig.cost_per_1k_tokens, in thousandths of a dollar
cost_per_1k_tokens(p) ==
    CASE p = "ollama" -> 0
      [] p = "anthropic" -> 15
      [] p = "openai" -> 30
      [] p = "google" -> 1
      [] p = "xai" -> 20
      [] p = "perplexity" -> 5

\* ------------------------------------------------ the float fields of the counters
\* total_cost and cost_saved are Python floats (IEEE 754 doubles).  A double
\* below 2^-10 whose unit in the last place is at least 2^-71 is kept as the
\* integer it is in units of 2^-71, in two digits <<high, low>> of base 2^30
Radix == 2 ^ 30
MantissaBits == 53
HighBits == MantissaBits - 30

\* 0.0
ZeroCost == <<0, 0>>

\* the number of binary digits of n < 2^31
BitLength(n) ==
    IF n >= Radix THEN 31
    ELSE CHOOSE b \in 0..30 : n < 2 ^ b /\ (b = 0 \/ n >= 2 ^ (b - 1))

\* the low digit without its last k bits, rounded to nearest, ties to even
rounded_low(low, k) ==
    LET r == low % (2 ^ k)
        up == r > 2 ^ (k - 1) \/ (r = 2 ^ (k - 1) /\ (low \div (2 ^ k)) % 2 = 1)
    IN  (low - r) + (IF up THEN 2 ^ k ELSE 0)

\* the double nearest to high * 2^30 + low, which has n + 30 binary digits
round_to_double(high, low, n) ==
    IF n <= HighBits THEN <<high, low>>
    ELSE <<high + (rounded_low(low, n - HighBits) \div Radix),
           rounded_low(low, n - HighBits) % Radix>>

\* the exact sum of two doubles, before rounding
exact_sum(a, b) ==
    <<a[1] + b[1] + ((a[2] + b[2]) \div Radix), (a[2] + b[2]) % Radix>>

\* a + b of two floats
float_add(a, b) ==
    IF a = ZeroCost THEN b
    ELSE IF b = ZeroCost THEN a
    ELSE round_to_double(exact_sum(a, b)[1], exact_sum(a, b)[2],
                         BitLength(exact_sum(a, b)[1]))

\* (tokens / 1000) * price, the price per 1000 tokens being price thousandths
\* of a dollar: the double Python computes, for the token counts of the texts
token_cost(tokens, price) ==
    CASE tokens = 0 -> ZeroCost
      [] tokens = 3 /\ price = 1 -> <<6597069, 823190612>>      \* 3e-06
      [] tokens = 3 /\ price = 5 -> <<32985348, 894727588>>     \* 1.5e-05
      [] tokens = 3 /\ price = 15 -> <<98956046, 536699104>>    \* 4.4999999999999996e-05
      [] tokens = 3 /\ price = 20 -> <<131941395, 357684880>>   \* 6e-05
      [] tokens = 3 /\ price = 30 -> <<197912092, 1073398208>>  \* 8.999999999999999e-05
      [] tokens = 4 /\ price = 1 -> <<8796093, 23845658>>       \* 4e-06
      [] tokens = 4 /\ price = 5 -> <<43980465, 119228296>>     \* 2e-05
      [] tokens = 4 /\ price = 15 -> <<131941395, 357684880>>   \* 6e-05
      [] tokens = 4 /\ price = 20 -> <<175921860, 476913184>>   \* 8e-05
      [] tokens = 4 /\ price = 30 -> <<263882790, 715369760>>   \* 0.00012
      [] tokens = 7 /\ price = 1 -> <<15393162, 847036270>>     \* 7e-06
      [] tokens = 7 /\ price = 5 -> <<76965813, 1013955888>>    \* 3.5000000000000004e-05
      [] tokens = 7 /\ price = 15 -> <<230897441, 894384000>>   \* 0.000105
      [] tokens = 7 /\ price = 20 -> <<307863255, 834598080>>   \* 0.00014000000000000001
      [] tokens = 7 /\ price = 30 -> <<461794883, 715026176>>   \* 0.00021

\* ------------------------------------------------------------ OllamaManager
NoTime == -1

Prompts == {"What is 2+2?"}

\* model arguments of send_message; NONE is Python's None
ModelArgs == {NONE, "auto", "llama3.2", "gpt-4", "mystery"}

\* str(e) of a failed backend call
Errors == {"429 Too Many Requests", "Connection refused"}

\* the text a backend generates
Responses == {"The answer is 4"}

\* what GET /api/tags can answer: a failure, or one of these model lists
ProbeLists == {<<"llama3.2:3b", "codellama:7b">>}

\* ok: the answer has status 200 and a JSON body; models: the names the loop
\* of lines 41-51 appends; complete: the loop runs through the listing
NoAnswer == [ok |-> FALSE, models |-> <<>>, complete |-> FALSE]

ProbeOutcomes == {NoAnswer}
                 \cup {[ok |-> TRUE, models |-> l, complete |-> TRUE] : l \in ProbeLists}

\* status 200 with a body the loop cannot walk: "models": null, or an entry
\* after the first that is not an object
BrokenListings == {[ok |-> TRUE, models |-> <<>>, complete |-> FALSE],
                   [ok |-> TRUE, models |-> <<"llama3.2:3b">>, complete |-> FALSE]}

\* OllamaManager before its first probe
NewOllamaManager ==
    [is_available |-> FALSE, available_models |-> <<>>, model_details |-> {},
     last_refresh |-> NoTime]

\* lines 38-39 empty the two collections before the loop; an exception in the
\* loop leaves them as far as the loop got (lines 69-72)
refresh_models(m, outcome, t) ==
    IF outcome.ok /\ outcome.complete
    THEN [is_available |-> TRUE,
          available_models |-> outcome.models,
          model_details |-> Range(outcome.models),
          last_refresh |-> t]
    ELSE IF outcome.ok
    THEN [m EXCEPT !.is_available = FALSE,
                   !.available_models = outcome.models,
                   !.model_details = Range(outcome.models)]
    ELSE [m EXCEPT !.is_available = FALSE]

should_refresh(m, t) ==
    IF m.last_refresh = NoTime THEN TRUE
    ELSE t - m.last_refresh > RefreshIntervalMinutes

\* the answers a probe can get when one is made; no probe, one (unused) answer
Answers(needed) == IF needed THEN ProbeOutcomes ELSE {NoAnswer}

\* the "Refresh if needed" prologue of the two lookups
refresh_if_needed(m, outcome, t) ==
    IF should_refresh(m, t) THEN refresh_models(m, outcome, t) ELSE m

Prefixes == <<"ollama/", "ollama:", "local/", "local:">>

RECURSIVE StripPrefixes(_, _)
StripPrefixes(cs, i) ==
    IF i > Len(Prefixes) THEN cs
    ELSE LET p == Chars(Prefixes[i])
         IN  StripPrefixes(IF StartsWith(cs, p)
                           THEN SubSeq(cs, Len(p) + 1, Len(cs)) ELSE cs, i + 1)

clean_name(name) == StripPrefixes(Strip(Lower(Chars(name))), 1)

\* lines 98-126 for the cleaned name, its base name and the installed names
name_matches(M, clean, base) ==
    \/ clean \in M
    \/ (clean \o Chars(":latest")) \in M
    \/ \E m \in M : StartsWith(m, base \o Chars(":")) \/ m = base
    \/ \E v \in {Replace(clean, ".", <<>>), Replace(clean, "-", <<>>),
                 Replace(clean, "_", <<>>), Replace(clean, ".", <<"-">>),
                 Replace(clean, "-", <<".">>)} :
          \/ v \in M
          \/ \E m \in M : Contains(m, v) \/ Contains(v, m)

clean_name_matches(M, clean) == name_matches(M, clean, SplitFirst(clean, ":"))

is_model_available(models, name) ==
    /\ models # <<>>
    /\ clean_name_matches({Chars(m) : m \in Range(models)}, clean_name(name))

\* the first member of models, in list order, that is one of good, or NONE
FirstThat(models, good) ==
    IF \E i \in 1..Len(models) : models[i] \in good
    THEN models[CHOOSE i \in 1..Len(models) :
                   /\ models[i] \in good
                   /\ \A j \in 1..(i - 1) : models[j] \notin good]
    ELSE NONE

\* the first of the answers that is not NONE, or NONE
FirstAnswer(answers) ==
    IF \E i \in 1..Len(answers) : answers[i] # NONE
    THEN answers[CHOOSE i \in 1..Len(answers) :
                    /\ answers[i] # NONE
                    /\ \A j \in 1..(i - 1) : answers[j] = NONE]
    ELSE NONE

\* lines 172-176 for one variant: the variant itself if installed, else the
\* first installed model that contains it
variant_match(models, v) ==
    FirstAnswer(<<FirstThat(models, {m \in Range(models) : Chars(m) = v}),
                  FirstThat(models, {m \in Range(models) : Contains(Chars(m), v)})>>)

\* lines 148-182 for the cleaned name and its base name: the matches in the
\* order they are tried
name_resolved(models, clean, base) ==
    FirstAnswer(<<
        FirstThat(models, {m \in Range(models) : Chars(m) = clean}),
        FirstThat(models, {m \in Range(models) : Chars(m) = clean \o Chars(":latest")}),
        FirstThat(models, {m \in Range(models) :
                              StartsWith(Chars(m), base \o Chars(":")) \/ Chars(m) = base}),
        variant_match(models, Replace(clean, ".", <<>>)),
        variant_match(models, Replace(clean, "-", <<>>)),
        variant_match(models, Replace(clean, "_", <<>>)),
        FirstThat(models, {m \in Range(models) :
                              Contains(Chars(m), clean) \/ Contains(clean, Chars(m))})>>)

clean_name_resolved(models, clean) == name_resolved(models, clean, SplitFirst(clean, ":"))

get_actual_model_name(models, name) ==
    IF models = <<>> THEN NONE ELSE clean_name_resolved(models, clean_name(name))

\* the lists available_models can hold, and the names a caller can ask for
ModelLists == {<<>>} \cup ProbeLists
\* the model arguments of three calls in a row
ReuseArgs == {"auto", "codellama", "mystery"}

ModelNames == (ModelArgs \cup ReuseArgs) \ {NONE}

\* is_model_available and get_actual_model_name, worked out once per argument
IsModelAvailable ==
    [models \in ModelLists, name \in ModelNames |-> is_model_available(models, name)]

ActualModelName ==
    [models \in ModelLists, name \in ModelNames |-> get_actual_model_name(models, name)]

\* ------------------------------------------------ OptimizedAPIManager: state
VARIABLES
    now,                  \* the clock, in minutes
    ollama_manager,       \* self.ollama_manager
    providers,            \* self.providers: name -> the mutable ProviderConfig fields
    user_preference,      \* self.user_preference
    usage_stats,          \* self.usage_stats
    auto_selected_model,  \* self._auto_selected_model
    actual_model_name,    \* self._actual_model_name
    dispatch,             \* the send_message calls: locals and position
    sends                 \* how many send_message calls were made

router_vars == <<now, ollama_manager, providers, user_preference, usage_stats,
                 auto_selected_model, actual_model_name, dispatch, sends>>

\* the module-level circuit_breaker of kimi-k2-resilient-enhanced/server.py
VARIABLES
    state,                  \* "closed", "open" or "half-open"
    failure_count,
    last_failure_time,      \* NoTime for None
    clock,                  \* time.time(), in seconds
    in_flight,              \* how many calls are at "await func()"
    calls,                  \* how many times call() was entered
    failures_since_success  \* the failures of func since it last returned

cb_vars == <<state, failure_count, last_failure_time, clock, in_flight, calls,
             failures_since_success>>

\* kimi-k2-resilient-enhanced/server.py: a ParallelProcessor, the batch it is
\* given and the tables of its EnhancedDatabase
VARIABLES
    db_clock,       \* the time in hours, as UTC
    utc_offset,     \* the host's local time minus UTC, in hours
    batch,          \* the BatchJob and its row of batch_jobs
    jobs,           \* batch.jobs: the ProcessingJobs and their tasks' positions
    semaphore,      \* the value of the asyncio.Semaphore of process_batch
    results,        \* what asyncio.gather collects, by job
    result_cache,   \* the table result_cache, by cache_key
    job_store,      \* the table processing_jobs: the status stored, by job
    api_log,        \* the calls of api_client.process that returned: what, when
    batches         \* how many times process_batch was called

batch_vars == <<db_clock, utc_offset, batch, jobs, semaphore, results, result_cache,
                job_store, api_log, batches>>

\* the jobs a caller may put in a batch: ProcessingJob(job_id, content,
\* analysis_type, 'pending'), with model_used left at its default None or set
Contents == {"alpha"}
AnalysisTypes == {"summary"}
DefaultModel == "moonshot-v1-32k"
ModelIds == {DefaultModel, "moonshot-v1-8k"}
JobShapes == [content : Contents, analysis_type : AnalysisTypes,
              model_used : {NONE, DefaultModel}]
JobLists == UNION {[1..n -> JobShapes] : n \in 1..MaxJobs}
Limits == 1..MaxLimit

\* what api_client.process may return, and the model it may write to the job
ApiResults == {"a summary"}
Assigned == {NONE, "moonshot-v1-8k"}

\* the database calls of one task that raise: get_cached_result (line 374),
\* cache_result (line 391), store_job of line 397, store_job of line 403
Faults == SUBSET {"lookup", "cache", "store", "store_again"}

\* f"{content_hash}_{analysis_type}_{model}", the content standing for its
\* sha256: str(None) is "None"
cache_key(content, analysis_type, model) ==
    <<content, analysis_type, IF model = NONE THEN "None" ELSE model>>

CacheKeys == {cache_key(c, a, m) : c \in Contents, a \in AnalysisTypes, m \in ModelIds}

\* a key with no row; ttl keeps the time-to-live a row was written with
NoEntry == [result |-> NONE, expires_at |-> 0, hit_count |-> 0, created_at |-> 0,
            last_accessed |-> 0, ttl |-> 0]

\* ProcessingJob(...) as the caller builds it; requested keeps the model_used
\* it was submitted with
NewJob(shape) ==
    [content |-> shape.content, analysis_type |-> shape.analysis_type,
     model_used |-> shape.model_used, requested |-> shape.model_used,
     status |-> "pending", result |-> NONE, error_message |-> NONE,
     pc |-> "scheduled"]

\* no batch was handed to process_batch yet
NoBatch == [status |-> "none", parallel_limit |-> 0, completed_count |-> 0,
            failed_count |-> 0, raised |-> FALSE]

\* ParallelProcessor(EnhancedDatabase()) on a host offset hours ahead of UTC,
\* before any batch
NewParallelProcessor(offset) ==
    /\ db_clock = 0
    /\ utc_offset = offset
    /\ batch = NoBatch
    /\ jobs = <<>>
    /\ semaphore = 0
    /\ results = <<>>
    /\ result_cache = [k \in CacheKeys |-> NoEntry]
    /\ job_store = <<>>
    /\ api_log = {}
    /\ batches = 0

\* converse-mcp-enhanced/src/optimizations.py: the cache of a ModelOptimizer,
\* and the calls made to the two caches
VARIABLES
    response_cache,  \* self._response_cache, by prompt_hash
    last_get,        \* the last lookup of either cache: its key, what it returned
    lookups          \* how many lookups were made

cache_vars == <<response_cache, last_get, lookups>>

PromptHashes == {"hash one"}
CachedValues == {"a summary", "another summary"}

\* the times-to-live callers pass: hours to cache_result, seconds to
\* cache_response
Ttls == {ttl_hours \div 2, ttl_hours}
SecondsPerHour == 3600

\* a prompt_hash that is not in the dict
NoResponse == [response |-> NONE, timestamp |-> 0, ttl |-> 0]

NoLookup == [cache |-> NONE, key |-> NONE, value |-> NONE]

\* ModelOptimizer.__init__, before any call
NewModelOptimizer ==
    /\ response_cache = [h \in PromptHashes |-> NoResponse]
    /\ last_get = NoLookup
    /\ lookups = 0

\* kimi-k2-resilient-enhanced/server.py: the WebhookManager, the tables it
\* and store_resilient_data work on, and one store_resilient_data call
VARIABLES
    webhooks,       \* the table webhooks, in id order
    mcp_storage,    \* the table mcp_storage: key -> value
    store_call,     \* the store_resilient_data call: its locals and position
    posts,          \* the requests client.post has sent for the call, in order
    httpx_compact,  \* the installed httpx writes JSON bodies without spaces
    stores          \* how many store_resilient_data calls were made

hook_vars == <<webhooks, mcp_storage, store_call, posts, httpx_compact, stores>>

EventTypes == {"data_stored", "job_done"}
Urls == {"http://a.example/hook"}
Secrets == {"", "s3cret"}
StorageKeys == {"k1"}
StorageValues == {"v1"}

\* webhooks.retry_count INTEGER DEFAULT 3: register_webhook leaves it out
retry_count == 3

\* arguments.get("ttl", 3600)
default_ttl == 3600

IdleStore ==
    [pc |-> "idle", key |-> NONE, value |-> NONE, hooks |-> <<>>, hook |-> 0,
     attempt |-> 0, body |-> <<>>, signature |-> NONE, result |-> NONE]

\* WebhookManager(database) on a fresh database, with the httpx that pip
\* installed
NewWebhookManager(compact) ==
    /\ webhooks = <<>>
    /\ mcp_storage = [k \in StorageKeys |-> NONE]
    /\ store_call = IdleStore
    /\ posts = <<>>
    /\ httpx_compact = compact
    /\ stores = 0

\* workspace/FEDERATED-INSTALLER-UNIFIED.py and workspace/uninstaller-clean.py:
\* the host's claude_desktop_config.json and the installation manifest
VARIABLES
    config,        \* mcpServers: name -> whose entry it holds, NONE for no entry
    manifest,      \* installation_manifest.json
    original,      \* mcpServers as it was before the first run of the installer
    added,         \* the names the installer has added to mcpServers
    installs,      \* how many times the installer has run
    uninstalled    \* the uninstaller has run

install_vars == <<config, manifest, original, added, installs, uninstalled>>

\* some of the keys of get_mcp_source_matrix, and a name that is not one
FederationMcps == {"memory", "sqlite"}
UserMcps == {"my-tool"}
McpNames == FederationMcps \cup UserMcps

NoServers == [n \in McpNames |-> NONE]

\* no installation_manifest.json on disk
NoManifest == [exists |-> FALSE, pre_existing_mcps |-> {}, newly_installed_mcps |-> {}]

\* a host whose mcpServers is servers, before the installer has run
NewHost(servers) ==
    /\ config = servers
    /\ manifest = NoManifest
    /\ original = servers
    /\ added = {}
    /\ installs = 0
    /\ uninstalled = FALSE

\* CircuitBreaker(): __init__ with its defaults
NewCircuitBreaker ==
    /\ state = "closed"
    /\ failure_count = 0
    /\ last_failure_time = NoTime
    /\ clock = 1
    /\ in_flight = 0
    /\ calls = 0
    /\ failures_since_success = 0


\* the callers of send_message: one in Spec, two concurrent ones in
\* SpecConcurrent
Dispatches == DOMAIN dispatch

AVAILABLE == "available"
RATE_LIMITED == "rate_limited"
ERROR == "error"
NOT_CONFIGURED == "not_configured"

Configured == DOMAIN providers \ {"ollama"}

NewProvider(enabled, status) ==
    [enabled |-> enabled, status |-> status, rate_limit_reset |-> NoTime,
     last_error |-> NONE, usage_count |-> 0, tokens_used |-> 0, total_cost |-> ZeroCost]

NewUsageStats ==
    [total_requests |-> 0, ollama_requests |-> 0, paid_requests |-> 0,
     total_tokens |-> 0, ollama_tokens |-> 0, paid_tokens |-> 0,
     total_cost |-> ZeroCost, cost_saved |-> ZeroCost]

IdleDispatch ==
    [pc |-> "idle", message |-> NONE, model |-> NONE, providers |-> <<>>,
     idx |-> 0, errors |-> <<>>, model_to_use |-> NONE,
     response |-> NONE, provider_used |-> NONE, raised |-> NONE,
     attempts |-> <<>>, produced |-> NONE,
     om_available |-> FALSE, preference |-> NONE, skipped |-> {},
     specific |-> NONE]

\* the API keys the environment may hold: XAI_API_KEY and PERPLEXITY_API_KEY
\* are not set
KeyChoices == {k \in SUBSET {"anthropic", "openai", "google"} : Cardinality(k) <= MaxRemotes}

\* what the local backend answers while the manager is constructed: to
\* requests.get in OllamaManager.__init__ and to httpx.get in
\* test_provider_availability
StartupProbes ==
    {[first |-> o, second |-> k] : o \in ProbeOutcomes, k \in {"exception", "non200", "200"}}

\* __init__: OllamaManager(), load_preferences, initialize_providers,
\* test_provider_availability, for one answer of the local backend, one set of
\* API keys and one stored preference
Constructed(probe, keys, preference) ==
    LET m == refresh_models(NewOllamaManager, probe.first, 0)
        base == [p \in {"ollama"} \cup keys |->
                   IF p = "ollama"
                   THEN NewProvider(m.is_available,
                                    IF m.is_available THEN AVAILABLE ELSE NOT_CONFIGURED)
                   ELSE NewProvider(TRUE, AVAILABLE)]
    IN  /\ now = 0
        /\ ollama_manager = m
        /\ providers =
             IF probe.second = "exception"
             THEN [base EXCEPT !["ollama"].status = ERROR,
                               !["ollama"].last_error = "Connection refused"]
             ELSE IF probe.second = "non200" THEN base
             ELSE [base EXCEPT !["ollama"].status = AVAILABLE]
        /\ user_preference = preference
        /\ usage_stats = NewUsageStats
        /\ auto_selected_model = NONE
        /\ actual_model_name = NONE

\* one caller at a time, any construction
Init ==
    /\ \E probe \in StartupProbes, keys \in KeyChoices :
          \E preference \in {NONE} \cup keys : Constructed(probe, keys, preference)
    /\ dispatch = [d \in {"d1"} |-> IdleDispatch]
    /\ sends = 0
    /\ NewCircuitBreaker
    /\ NewParallelProcessor(0)
    /\ NewModelOptimizer
    /\ NewWebhookManager(FALSE)
    /\ NewHost(NoServers)

\* two concurrent callers of a router that found the local backend running
\* and holds no stored preference
InitConcurrent ==
    /\ \E probe \in {s \in StartupProbes : s.first.ok}, keys \in KeyChoices :
          Constructed(probe, keys, NONE)
    /\ dispatch = [d \in {"d1", "d2"} |-> IdleDispatch]
    /\ sends = 0
    /\ NewCircuitBreaker
    /\ NewParallelProcessor(0)
    /\ NewModelOptimizer
    /\ NewWebhookManager(FALSE)
    /\ NewHost(NoServers)

\* ---------------------------------------------------- get_available_providers
\* the members of S as a list in ascending ProviderConfig.priority
RECURSIVE SortedByPriority(_, _)
SortedByPriority(S, configured) ==
    IF S = {} THEN <<>>
    ELSE LET first == CHOOSE p \in S :
                         \A q \in S : priority(p, configured) <= priority(q, configured)
         IN  <<first>> \o SortedByPriority(S \ {first}, configured)

get_available_providers(P, preference) ==
    LET configured == DOMAIN P \ {"ollama"}
        available == {p \in DOMAIN P : P[p].enabled /\ P[p].status = AVAILABLE}
        others == available \ {preference}
    IN  IF preference # NONE /\ preference \in available
        THEN IF "ollama" \in others
             THEN <<"ollama", preference>> \o SortedByPriority(others \ {"ollama"}, configured)
             ELSE <<preference>> \o SortedByPriority(others, configured)
        ELSE SortedByPriority(available, configured)

\* list comprehension: the members of list that are not name, in order
RECURSIVE Without(_, _)
Without(list, name) ==
    IF list = <<>> THEN <<>>
    ELSE (IF Head(list) = name THEN <<>> ELSE <<Head(list)>>) \o Without(Tail(list), name)

\* ------------------------------------------------ _select_optimal_ollama_model
RECURSIVE WordCount(_, _)
\* len(cs.split()); inword says whether the previous character was part of a word
WordCount(cs, inword) ==
    IF cs = <<>> THEN 0
    ELSE IF Head(cs) = " " THEN WordCount(Tail(cs), FALSE)
    ELSE (IF inword THEN 0 ELSE 1) + WordCount(Tail(cs), TRUE)

CodeWords == {"code", "function", "class", "def ", "import", "programming", "script"}

\* the models a loop "for model in wanted: if any(hit): return next(...)" can
\* return, hits[k] being the installed models the k-th wanted name hits: any
\* model hit by the first wanted name that hits one (next() walks a Python
\* set, whose order is not fixed); {} when none hits
FirstWanted(hits) ==
    IF \E k \in 1..Len(hits) : hits[k] # {}
    THEN hits[CHOOSE k \in 1..Len(hits) :
                 hits[k] # {} /\ \A j \in 1..(k - 1) : hits[j] = {}]
    ELSE {}

\* the set of models the call can return
select_optimal_ollama_model(models, prompt) ==
    LET available == Range(models)
        text == Chars(prompt)
        ByPrefix(wanted) ==
            [k \in 1..Len(wanted) |->
                {m \in available : StartsWith(Chars(m), SplitFirst(Chars(wanted[k]), ":"))}]
        BySubstr(wanted) ==
            [k \in 1..Len(wanted) |->
                {m \in available : Contains(Chars(m), Chars(wanted[k]))}]
        small == IF Len(text) < 50
                 THEN FirstWanted(ByPrefix(<<"phi3:mini", "llama3.2:3b", "llama3.2">>))
                 ELSE {}
        coder == IF \E w \in CodeWords : Contains(Lower(text), Chars(w))
                 THEN FirstWanted(BySubstr(<<"codellama", "qwen2.5-coder">>))
                 ELSE {}
        large == IF Len(text) > 200
                 THEN FirstWanted(BySubstr(<<"qwen2.5-coder", "llama3.2">>))
                 ELSE {}
    IN  IF models = <<>> THEN {"llama3.2:3b"}
        ELSE IF small # {} THEN small
        ELSE IF coder # {} THEN coder
        ELSE IF large # {} THEN large
        ELSE available

\* _select_optimal_ollama_model, worked out once per argument
OptimalOllamaModel ==
    [models \in ModelLists, prompt \in Prompts |-> select_optimal_ollama_model(models, prompt)]

\* --------------------------------------------------- select_provider_for_model
\* the providers whose model-name pattern (lines 521-549) fits model, in the
\* order the patterns are tried
model_patterns(model) ==
    LET lower == Lower(Chars(model))
        Has(w) == Contains(lower, Chars(w))
    IN  (IF Has("claude") \/ Has("opus") \/ Has("sonnet") THEN <<"anthropic">> ELSE <<>>)
        \o (IF StartsWith(lower, Chars("gpt")) \/ StartsWith(lower, Chars("o3"))
               \/ Has("davinci") THEN <<"openai">> ELSE <<>>)
        \o (IF Has("gemini") \/ Has("bison") THEN <<"google">> ELSE <<>>)
        \o (IF Has("grok") THEN <<"xai">> ELSE <<>>)
        \o (IF Has("pplx") \/ Has("sonar") THEN <<"perplexity">> ELSE <<>>)

ModelPatterns == [model \in ModelNames |-> model_patterns(model)]

\* lines 521-549: the first provider whose pattern fits and that is configured
\* and enabled, or NONE
provider_by_pattern(P, model) ==
    LET fits == ModelPatterns[model]
        Usable(p) == p \in DOMAIN P /\ P[p].enabled
    IN  IF \E i \in 1..Len(fits) : Usable(fits[i])
        THEN fits[CHOOSE i \in 1..Len(fits) :
                     Usable(fits[i]) /\ \A j \in 1..(i - 1) : ~Usable(fits[j])]
        ELSE NONE

\* select_provider_for_model(model) for a model that is not None/"": the
\* three probes it may make answer o1, o2, o3.  The result is a record: the
\* provider chosen (or NONE), and what the call leaves in ollama_manager and
\* _actual_model_name.
select_provider_for_model(P, m, actual, model, o1, o2, o3, t) ==
    LET m1 == refresh_if_needed(m, o1, t)
        m2 == refresh_if_needed(m1, o2, t)
        found == IsModelAvailable[m2.available_models, model]
        m3 == IF found THEN refresh_if_needed(m2, o3, t) ELSE m2
        name == IF found THEN ActualModelName[m3.available_models, model] ELSE NONE
    IN  IF found /\ name # NONE
        THEN [provider |-> "ollama", manager |-> m3, actual |-> name]
        ELSE [provider |-> provider_by_pattern(P, model), manager |-> m3, actual |-> actual]

\* ---------------------------------------------------------------- send_message
\* the calls that wait for a backend
InFlight == {d \in Dispatches : dispatch[d].pc = "calling"}

\* a call that has returned or raised is over: its locals are gone at the
\* next step of the program
Live == [d \in Dispatches |-> IF dispatch[d].pc = "calling" THEN dispatch[d] ELSE IdleDispatch]

\* line 611: the provider is skipped while its rate_limit_reset lies ahead
Cooling(P, p, t) == P[p].rate_limit_reset # NoTime /\ t < P[p].rate_limit_reset

\* the position of the next provider of the list, from position from on, that
\* the loop does not skip; 0 when the loop runs off the list
NextAttempt(P, list, from, t) ==
    IF \E i \in from..Len(list) : ~Cooling(P, list[i], t)
    THEN CHOOSE i \in from..Len(list) :
            /\ ~Cooling(P, list[i], t)
            /\ \A j \in from..(i - 1) : Cooling(P, list[j], t)
    ELSE 0

\* an entry that does not name its provider
error_entry_unnamed(p, e) == [provider |-> NONE, error |-> e]

\* the error message of line 636 for one failed provider
error_entry(p, e) == [provider |-> p, error |-> e]

\* lines 650-654: the text of the RuntimeError the loop ends with, line by
\* line; "ollama" is always among the configured names of
\* _get_configuration_help
aggregated_error(errors) ==
    <<Chars("All AI providers failed. Errors:")>>
    \o [i \in 1..Len(errors) |->
           Chars(errors[i].provider) \o Chars(": ") \o Chars(errors[i].error)]
    \o <<<<>>, Chars("Check your API keys and network connection.")>>

\* _call_provider up to its HTTP request, for the provider at position i.
\* D is the dispatch record so far, A and N the values of
\* _auto_selected_model and _actual_model_name, m the manager; the probes the
\* lookups of lines 736-737 may make answer o4 and o5.
CallProvider(d, D, i, m, A, N, o4, o5) ==
    LET p == D.providers[i]
        m4 == refresh_if_needed(m, o4, now)
        found == D.model # NONE /\ IsModelAvailable[m4.available_models, D.model]
        m5 == IF found THEN refresh_if_needed(m4, o5, now) ELSE m4
        resolved == IF D.model # NONE THEN ActualModelName[m5.available_models, D.model] ELSE NONE
        lookup == p = "ollama" /\ A = NONE /\ ~(N # NONE /\ D.model # NONE)
                  /\ D.model # NONE
    IN  /\ ollama_manager' = IF lookup THEN m5 ELSE m
        /\ auto_selected_model' = IF p = "ollama" THEN NONE ELSE A
        /\ actual_model_name' =
             IF p = "ollama" /\ A = NONE /\ N # NONE /\ D.model # NONE THEN NONE ELSE N
        /\ \E use \in (IF p # "ollama" THEN {D.model}
                       ELSE IF A # NONE THEN {A}
                       ELSE IF N # NONE /\ D.model # NONE THEN {N}
                       ELSE IF found
                            THEN {IF resolved # NONE THEN resolved ELSE D.model}
                       ELSE OptimalOllamaModel[
                                (IF lookup THEN m5 ELSE m).available_models, D.message]) :
             dispatch' = [Live EXCEPT ![d] =
                 [D EXCEPT !.pc = "calling", !.idx = i, !.model_to_use = use,
                           !.attempts = Append(D.attempts, p)]]

\* the for loop of lines 608-654 from position from, up to the next await or
\* to the RuntimeError of line 654
RunLoop(d, D, from, P, m, A, N) ==
    LET i == NextAttempt(P, D.providers, from, now)
        passed == {D.providers[j] : j \in from..((IF i = 0 THEN Len(D.providers) ELSE i - 1))}
        D1 == [D EXCEPT !.skipped = D.skipped \cup passed]
    IN  IF i = 0
        THEN /\ dispatch' = [Live EXCEPT ![d] =
                   [D1 EXCEPT !.pc = "raised", !.raised = "all_failed",
                              !.idx = Len(D.providers) + 1]]
             /\ ollama_manager' = m
             /\ auto_selected_model' = A
             /\ actual_model_name' = N
        ELSE LET lookup == /\ D.providers[i] = "ollama" /\ A = NONE /\ N = NONE
                           /\ D.model # NONE /\ should_refresh(m, now)
             IN  \E o4 \in Answers(lookup) :
                    \E o5 \in Answers(lookup /\ ~o4.ok) :
                       CallProvider(d, D1, i, m, A, N, o4, o5)

\* lines 557-582: the provider list when no model, or "auto", is asked for.
\* A record: the list, the providers table and _auto_selected_model after it.
auto_route(P, m, A, preference, selected) ==
    IF "ollama" \in DOMAIN P /\ m.is_available /\ P["ollama"].enabled
    THEN LET P1 == [P EXCEPT !["ollama"].status = AVAILABLE]
         IN  [list |-> <<"ollama">> \o Without(get_available_providers(P1, preference), "ollama"),
              table |-> P1, auto |-> selected]
    ELSE [list |-> get_available_providers(P, preference), table |-> P, auto |-> A]

\* lines 583-595: the provider list when a model is asked for and
\* select_provider_for_model answered specific
model_route(P, preference, specific) ==
    IF specific # NONE /\ P[specific].status = AVAILABLE
    THEN <<specific>> \o Without(get_available_providers(P, preference), specific)
    ELSE get_available_providers(P, preference)

\* a send_message that raises the way the loop does although its list is empty
configuration_error_as_exhaustion(D) == [D EXCEPT !.pc = "raised", !.raised = "all_failed"]

\* lines 597-601: no provider at all, RuntimeError(_get_configuration_error())
configuration_error(D) == [D EXCEPT !.pc = "raised", !.raised = "not_configured"]

\* send_message(message, model) from its call to its first await, or to the
\* RuntimeError it raises
SendMessage(d, message, model) ==
    /\ dispatch[d].pc \in {"idle", "returned", "raised"}
    /\ sends' = sends + 1
    /\ LET D0 == [IdleDispatch EXCEPT !.message = message, !.model = model,
                                      !.om_available = ollama_manager.is_available,
                                      !.preference = user_preference]
       IN  IF model = NONE \/ model = "auto"
           THEN \E selected \in OptimalOllamaModel[
                                   ollama_manager.available_models, message] :
                  LET r == auto_route(providers, ollama_manager, auto_selected_model,
                                      user_preference, selected)
                      D == [D0 EXCEPT !.providers = r.list]
                  IN  /\ providers' = r.table
                      /\ IF r.list = <<>>
                         THEN /\ dispatch' = [Live EXCEPT ![d] = configuration_error(D)]
                              /\ UNCHANGED <<ollama_manager, auto_selected_model,
                                             actual_model_name>>
                         ELSE RunLoop(d, D, 1, r.table, ollama_manager, r.auto,
                                      actual_model_name)
           ELSE \E o1 \in Answers(should_refresh(ollama_manager, now)) :
                \E o2 \in Answers(should_refresh(ollama_manager, now) /\ ~o1.ok) :
                \E o3 \in Answers(should_refresh(ollama_manager, now) /\ ~o1.ok /\ ~o2.ok) :
                  LET s == select_provider_for_model(providers, ollama_manager,
                               actual_model_name, model, o1, o2, o3, now)
                      list == model_route(providers, user_preference, s.provider)
                      D == [D0 EXCEPT !.providers = list, !.specific = s.provider,
                                      !.om_available = s.manager.is_available]
                  IN  /\ providers' = providers
                      /\ IF list = <<>>
                         THEN /\ dispatch' = [Live EXCEPT ![d] = configuration_error(D)]
                              /\ ollama_manager' = s.manager
                              /\ actual_model_name' = s.actual
                              /\ UNCHANGED auto_selected_model
                         ELSE RunLoop(d, D, 1, providers, s.manager,
                                      auto_selected_model, s.actual)
    /\ UNCHANGED <<now, user_preference, usage_stats>>
    /\ UNCHANGED <<cb_vars, batch_vars, cache_vars, hook_vars, install_vars>>

\* ----------------------------------------------------------- _update_usage_stats
\* min(..., default=0.001) over the paid providers that are AVAILABLE, in
\* thousandths of a dollar per 1000 tokens
\* savings always reckoned at the default price
cheapest_paid_default(P) == 1

cheapest_paid(P) ==
    LET paid == {cost_per_1k_tokens(p) : p \in {q \in DOMAIN P :
                    cost_per_1k_tokens(q) > 0 /\ P[q].status = AVAILABLE}}
    IN  IF paid = {} THEN 1
        ELSE CHOOSE c \in paid : \A x \in paid : c <= x

estimate_tokens(message, response) ==
    WordCount(Chars(message), FALSE) + WordCount(Chars(response), FALSE)

EstimatedTokens ==
    [message \in Prompts, response \in Responses |-> estimate_tokens(message, response)]

\* statistics that reckon no saving for the local backend
update_usage_stats_nothing_saved(U, P, p, tokens) ==
    IF p = "ollama"
    THEN [U EXCEPT !.total_requests = @ + 1, !.total_tokens = @ + tokens,
                   !.ollama_requests = @ + 1, !.ollama_tokens = @ + tokens]
    ELSE [U EXCEPT !.total_requests = @ + 1, !.total_tokens = @ + tokens,
                   !.paid_requests = @ + 1, !.paid_tokens = @ + tokens,
                   !.total_cost = float_add(@, token_cost(tokens, cost_per_1k_tokens(p)))]

\* statistics that do not count the requests served by paid providers
update_usage_stats_paid_uncounted(U, P, p, tokens) ==
    IF p = "ollama"
    THEN [U EXCEPT !.total_requests = @ + 1, !.ollama_requests = @ + 1]
    ELSE [U EXCEPT !.total_requests = @ + 1]

\* lines 685-709: the statistics after a call of provider p that used tokens
update_usage_stats(U, P, p, tokens) ==
    IF p = "ollama"
    THEN [U EXCEPT !.total_requests = @ + 1, !.total_tokens = @ + tokens,
                   !.ollama_requests = @ + 1, !.ollama_tokens = @ + tokens,
                   !.cost_saved = float_add(@, token_cost(tokens, cheapest_paid(P)))]
    ELSE [U EXCEPT !.total_requests = @ + 1, !.total_tokens = @ + tokens,
                   !.paid_requests = @ + 1, !.paid_tokens = @ + tokens,
                   !.total_cost = float_add(@, token_cost(tokens, cost_per_1k_tokens(p)))]

update_provider_usage(P, p, tokens) ==
    [P EXCEPT ![p].usage_count = @ + 1, ![p].tokens_used = @ + tokens,
              ![p].total_cost = IF p = "ollama" THEN @
                                ELSE float_add(@, token_cost(tokens, cost_per_1k_tokens(p)))]

\* a router that answers with a text of its own
returned_placeholder(provider, response) ==
    [response |-> "placeholder", provider_used |-> provider]

\* what send_message returns at line 633
returned(provider, response) == [response |-> response, provider_used |-> provider]

\* the backend call of line 622 returns response: lines 624-633
CallReturns(d, response) ==
    LET D == dispatch[d]
        p == D.providers[D.idx]
        tokens == EstimatedTokens[D.message, response]
        r == returned(p, response)
    IN  /\ D.pc = "calling"
        /\ usage_stats' = update_usage_stats(usage_stats, providers, p, tokens)
        /\ providers' = update_provider_usage(providers, p, tokens)
        /\ dispatch' = [Live EXCEPT ![d] =
               [D EXCEPT !.pc = "returned", !.response = r.response,
                         !.provider_used = r.provider_used,
                         !.produced = [provider |-> p, response |-> response]]]
        /\ UNCHANGED <<sends, now, ollama_manager, user_preference,
                       auto_selected_model, actual_model_name>>
        /\ UNCHANGED <<cb_vars, batch_vars, cache_vars, hook_vars, install_vars>>

\* "rate" in str(e).lower() or "429" in str(e)
rate_limit_text(e) ==
    \/ Contains(Lower(Chars(e)), Chars("rate"))
    \/ Contains(Chars(e), Chars("429"))

RateLimitText == [e \in Errors |-> rate_limit_text(e)]

\* line 641 without its "provider.name != 'ollama'"
is_rate_limit_for_all(p, e) == RateLimitText[e]

\* line 641: the error counts as a rate limit
is_rate_limit(p, e) == p # "ollama" /\ RateLimitText[e]

\* lines 635-648: the except block
record_failure(P, p, e, t) ==
    IF is_rate_limit(p, e)
    THEN [P EXCEPT ![p].last_error = e, ![p].status = RATE_LIMITED,
                   ![p].rate_limit_reset = t + RateLimitMinutes]
    ELSE [P EXCEPT ![p].last_error = e]

\* the backend call of line 622 raises e: the except block, then the loop
\* again up to the next await
CallRaises(d, e) ==
    LET D == dispatch[d]
        p == D.providers[D.idx]
        P1 == record_failure(providers, p, e, now)
        D1 == [D EXCEPT !.errors = Append(D.errors, error_entry(p, e))]
    IN  /\ D.pc = "calling"
        /\ providers' = P1
        /\ RunLoop(d, D1, D.idx + 1, P1, ollama_manager, auto_selected_model,
                   actual_model_name)
        /\ UNCHANGED <<sends, now, user_preference, usage_stats>>
        /\ UNCHANGED <<cb_vars, batch_vars, cache_vars, hook_vars, install_vars>>

\* ------------------------------------------------------- the other operations
\* the refresh_ollama_models tool of mcp_server.py
RefreshOllamaModels(outcome) ==
    /\ ollama_manager' = refresh_models(ollama_manager, outcome, now)
    /\ dispatch' = Live
    /\ UNCHANGED <<sends, now, providers, user_preference, usage_stats,
                   auto_selected_model, actual_model_name>>
    /\ UNCHANGED <<cb_vars, batch_vars, cache_vars, hook_vars, install_vars>>

\* time passes, a cooldown at a time
Tick ==
    /\ now + RateLimitMinutes <= MaxTime
    /\ now' = now + RateLimitMinutes
    /\ dispatch' = Live
    /\ UNCHANGED <<sends, ollama_manager, providers, user_preference, usage_stats,
                   auto_selected_model, actual_model_name>>
    /\ UNCHANGED <<cb_vars, batch_vars, cache_vars, hook_vars, install_vars>>

\* ----------------------------------------------- _update_usage_stats by itself
\* the texts _update_usage_stats may be given: a prompt of blanks passes the
\* "if not prompt" of call_tool, and a backend may generate nothing
UsagePrompts == Prompts \cup {" "}
UsageResponses == Responses \cup {""}

UsageTokens ==
    [message \in UsagePrompts, response \in UsageResponses |->
        estimate_tokens(message, response)]

\* line 625: provider p has answered message with response
UpdateUsageStats(p, message, response) ==
    /\ usage_stats.total_requests < MaxRequests
    /\ p \in DOMAIN providers
    /\ providers[p].enabled
    /\ providers[p].status = AVAILABLE
    /\ usage_stats' = update_usage_stats(usage_stats, providers, p,
                                         UsageTokens[message, response])
    /\ providers' = update_provider_usage(providers, p, UsageTokens[message, response])
    /\ UNCHANGED <<sends, now, ollama_manager, user_preference, auto_selected_model,
                   actual_model_name, dispatch>>
    /\ UNCHANGED <<cb_vars, batch_vars, cache_vars, hook_vars, install_vars>>

\* lines 635-643: provider p has failed with e
ProviderFails(p, e) ==
    /\ p \in DOMAIN providers
    /\ providers[p].enabled
    /\ providers[p].status = AVAILABLE
    /\ providers' = record_failure(providers, p, e, now)
    /\ UNCHANGED <<sends, now, ollama_manager, user_preference, usage_stats,
                   auto_selected_model, actual_model_name, dispatch>>
    /\ UNCHANGED <<cb_vars, batch_vars, cache_vars, hook_vars, install_vars>>

NextUsage ==
    \/ \E p \in ProviderNames, message \in UsagePrompts, response \in UsageResponses :
          UpdateUsageStats(p, message, response)
    \/ \E p \in ProviderNames, e \in Errors : ProviderFails(p, e)

\* ------------------------------------------------------------- CircuitBreaker
\* kimi-k2-resilient-enhanced/server.py: the module-level circuit_breaker that
\* every process_task call goes through
\* a breaker that lets a call through as soon as it has failed once
cooldown_ignored(last, t) == last # NoTime

\* line 493: last_failure_time is set and lies more than timeout back
cooldown_elapsed(last, t) == last # NoTime /\ (t - last) > timeout

\* call(func) up to "await func()", or to the exception of line 496
Call ==
    /\ calls < MaxCalls
    /\ calls' = calls + 1
    /\ IF state = "open"
       THEN IF cooldown_elapsed(last_failure_time, clock)
            THEN /\ in_flight < MaxInflight
                 /\ state' = "half-open"
                 /\ in_flight' = in_flight + 1
            ELSE UNCHANGED <<state, in_flight>>
       ELSE /\ in_flight < MaxInflight
            /\ in_flight' = in_flight + 1
            /\ UNCHANGED state
    /\ UNCHANGED <<failure_count, last_failure_time, clock, failures_since_success>>
    /\ UNCHANGED <<router_vars, batch_vars, cache_vars, hook_vars, install_vars>>

\* func() returns: lines 499-503
FuncReturns ==
    /\ in_flight > 0
    /\ in_flight' = in_flight - 1
    /\ IF state = "half-open"
       THEN state' = "closed" /\ failure_count' = 0
       ELSE UNCHANGED <<state, failure_count>>
    /\ failures_since_success' = 0
    /\ UNCHANGED <<last_failure_time, clock, calls>>
    /\ UNCHANGED <<router_vars, batch_vars, cache_vars, hook_vars, install_vars>>

\* a breaker that opens at the threshold and not beyond it
after_failure_exact(count) == IF count = failure_threshold THEN "open" ELSE state

\* lines 505-510: the state after one more failure
after_failure(count) == IF count >= failure_threshold THEN "open" ELSE state

\* func() raises: lines 504-512
FuncRaises ==
    /\ in_flight > 0
    /\ in_flight' = in_flight - 1
    /\ failure_count' = failure_count + 1
    /\ last_failure_time' = clock
    /\ state' = after_failure(failure_count + 1)
    /\ failures_since_success' = failures_since_success + 1
    /\ UNCHANGED <<clock, calls>>
    /\ UNCHANGED <<router_vars, batch_vars, cache_vars, hook_vars, install_vars>>

\* time passes, half a cooldown at a time
CbTick ==
    /\ clock + (timeout \div 2) <= MaxCbTime
    /\ clock' = clock + (timeout \div 2)
    /\ UNCHANGED <<state, failure_count, last_failure_time, in_flight, calls,
                   failures_since_success>>
    /\ UNCHANGED <<router_vars, batch_vars, cache_vars, hook_vars, install_vars>>

\* ---------------------------------------------------------- EnhancedDatabase
\* datetime('now') of SQLite: the time as UTC
utc_now(t) == t

\* datetime.now() of Python: the host's local time
local_now(t, offset) == t + offset

\* line 249: the left side of "datetime('now') < expires_at"
lookup_time(t, offset) == utc_now(t)

\* get_cached_result: the value returned and the table after the call
get_cached_result(cache, content, analysis_type, model, t, offset) ==
    LET k == cache_key(content, analysis_type, model)
        found == cache[k].result # NONE /\ lookup_time(t, offset) < cache[k].expires_at
    IN  [value |-> IF found THEN cache[k].result ELSE NONE,
         cache |-> IF found
                   THEN [cache EXCEPT ![k].hit_count = @ + 1, ![k].last_accessed = utc_now(t)]
                   ELSE cache]

\* cache_result, for a model that is not None: INSERT OR REPLACE of the row
cache_result(cache, content, analysis_type, model, result, ttl, t, offset) ==
    [cache EXCEPT ![cache_key(content, analysis_type, model)] =
        [result |-> result, expires_at |-> local_now(t, offset) + ttl,
         hit_count |-> 0, created_at |-> utc_now(t), last_accessed |-> utc_now(t),
         ttl |-> ttl]]

\* result_cache.model_used is TEXT NOT NULL: cache_result raises
\* sqlite3.IntegrityError for model None, or fails as the database does
cache_result_raises(model, faults) == model = NONE \/ "cache" \in faults

\* ---------------------------------------------------------- ParallelProcessor
\* a semaphore that hands out permits without counting
permit_free_always(value) == TRUE

\* "async with semaphore": a permit is free
permit_free(value) == value > 0

\* a semaphore that keeps the permit of a task that ends
release_leaked(value) == value

\* the end of "async with semaphore", however the block is left
release(value) == value + 1

\* "if cached:" of line 378
Truthy(v) == v # NONE /\ v # ""

\* the model of the lookup, line 375: job.model_used or "moonshot-v1-32k"
lookup_model(job) == IF job.model_used = NONE THEN DefaultModel ELSE job.model_used

\* lines 399-406: the except block, and what the task hands to gather
except_block(job, e, faults) ==
    [job |-> [job EXCEPT !.status = "failed", !.error_message = e, !.pc = "done"],
     stored |-> "store_again" \notin faults,
     result |-> IF "store_again" \in faults THEN "exception" ELSE "job"]

\* lines 396-406 after the job was marked completed
store_completed(job, faults) ==
    IF "store" \in faults
    THEN except_block(job, "database error", faults)
    ELSE [job |-> [job EXCEPT !.pc = "done"], stored |-> TRUE, result |-> "job"]

\* the task of job j ends with outcome o: the job, its row, gather's entry
TaskEnds(j, o) ==
    /\ jobs' = [jobs EXCEPT ![j] = o.job]
    /\ job_store' = IF o.stored THEN [job_store EXCEPT ![j] = o.job.status] ELSE job_store
    /\ results' = [results EXCEPT ![j] = o.result]

\* process_batch up to "await asyncio.gather": lines 337-351
ProcessBatch(shapes, limit) ==
    /\ batches < MaxBatches
    /\ batch.status \in {"none", "completed", "partial"}
    /\ batches' = batches + 1
    /\ batch' = [status |-> "processing", parallel_limit |-> limit,
                 completed_count |-> 0, failed_count |-> 0, raised |-> FALSE]
    /\ jobs' = [j \in DOMAIN shapes |-> NewJob(shapes[j])]
    /\ semaphore' = limit
    /\ results' = [j \in DOMAIN shapes |-> NONE]
    /\ job_store' = [j \in DOMAIN shapes |-> NONE]
    /\ UNCHANGED <<db_clock, utc_offset, result_cache, api_log>>
    /\ UNCHANGED <<router_vars, cb_vars, cache_vars, hook_vars, install_vars>>

\* the task of job j gets its permit and runs to its first await or to its
\* end: lines 344-345 and 372-385
TaskStarts(j, faults) ==
    LET job == jobs[j]
        g == get_cached_result(result_cache, job.content, job.analysis_type,
                               lookup_model(job), db_clock, utc_offset)
    IN  /\ batch.status = "processing"
        /\ j \in DOMAIN jobs
        /\ job.pc = "scheduled"
        /\ permit_free(semaphore)
        /\ IF "lookup" \in faults
           THEN /\ TaskEnds(j, except_block(job, "database error", faults))
                /\ UNCHANGED <<semaphore, result_cache>>
           ELSE IF Truthy(g.value)
           THEN /\ TaskEnds(j, store_completed(
                          [job EXCEPT !.result = g.value, !.status = "completed"], faults))
                /\ result_cache' = g.cache
                /\ UNCHANGED semaphore
           ELSE /\ jobs' = [jobs EXCEPT ![j].pc = "awaiting"]
                /\ semaphore' = semaphore - 1
                /\ result_cache' = g.cache
                /\ UNCHANGED <<job_store, results>>
        /\ UNCHANGED <<db_clock, utc_offset, batch, api_log, batches>>
        /\ UNCHANGED <<router_vars, cb_vars, cache_vars, hook_vars, install_vars>>

\* api_client.process(job) returns result, having written assigned to
\* job.model_used if it is not None: lines 385-397, then the permit goes back
ApiReturns(j, result, assigned, faults) ==
    LET job == jobs[j]
        done == [job EXCEPT !.model_used = IF assigned = NONE THEN @ ELSE assigned,
                            !.result = result, !.status = "completed"]
    IN  /\ j \in DOMAIN jobs
        /\ job.pc = "awaiting"
        /\ IF cache_result_raises(done.model_used, faults)
           THEN /\ TaskEnds(j, except_block(done, "database error", faults))
                /\ UNCHANGED result_cache
           ELSE /\ TaskEnds(j, store_completed(done, faults))
                /\ result_cache' = cache_result(result_cache, done.content,
                                       done.analysis_type, done.model_used, result,
                                       ttl_hours, db_clock, utc_offset)
        /\ semaphore' = release(semaphore)
        /\ api_log' = api_log \cup {[content |-> job.content,
                                     analysis_type |-> job.analysis_type,
                                     model |-> job.requested, result |-> result,
                                     at |-> db_clock]}
        /\ UNCHANGED <<db_clock, utc_offset, batch, batches>>
        /\ UNCHANGED <<router_vars, cb_vars, cache_vars, hook_vars, install_vars>>

\* api_client.process(job) raises: lines 399-406, then the permit goes back
ApiRaises(j, faults) ==
    /\ j \in DOMAIN jobs
    /\ jobs[j].pc = "awaiting"
    /\ TaskEnds(j, except_block(jobs[j], "api error", faults))
    /\ semaphore' = release(semaphore)
    /\ UNCHANGED <<db_clock, utc_offset, batch, result_cache, api_log, batches>>
    /\ UNCHANGED <<router_vars, cb_vars, cache_vars, hook_vars, install_vars>>

\* lines 354-355: the jobs gather returned with the given status
Counted(R, J, status) == Cardinality({j \in DOMAIN J : R[j] = "job" /\ J[j].status = status})

\* line 357
batch_status(failed) == IF failed = 0 THEN "completed" ELSE "partial"

\* gather returns: lines 353-368; the UPDATE of batch_jobs may fail
GatherReturns(update_fails) ==
    /\ batch.status = "processing"
    /\ \A j \in DOMAIN jobs : results[j] # NONE
    /\ batch' = [batch EXCEPT
                    !.status = batch_status(Counted(results, jobs, "failed")),
                    !.completed_count = IF update_fails THEN @
                                        ELSE Counted(results, jobs, "completed"),
                    !.failed_count = IF update_fails THEN @
                                     ELSE Counted(results, jobs, "failed"),
                    !.raised = update_fails]
    /\ UNCHANGED <<db_clock, utc_offset, jobs, semaphore, results, result_cache,
                   job_store, api_log, batches>>
    /\ UNCHANGED <<router_vars, cb_vars, cache_vars, hook_vars, install_vars>>

\* ------------------------------------------------------------- the two caches
\* time.time(): the clock in seconds
time_time(t) == t * SecondsPerHour

\* ModelOptimizer.cache_response
cache_response(cache, prompt_hash, response, ttl, t) ==
    [cache EXCEPT ![prompt_hash] =
        [response |-> response, timestamp |-> time_time(t), ttl |-> ttl]]

\* line 128: the entry is still valid
still_valid(entry, t) == time_time(t) - entry.timestamp < entry.ttl

\* ModelOptimizer.get_cached_response: the value returned and the dict after
get_cached_response(cache, prompt_hash, t) ==
    IF cache[prompt_hash].response = NONE
    THEN [value |-> NONE, cache |-> cache]
    ELSE IF still_valid(cache[prompt_hash], t)
    THEN [value |-> cache[prompt_hash].response, cache |-> cache]
    ELSE [value |-> NONE, cache |-> [cache EXCEPT ![prompt_hash] = NoResponse]]

\* a caller stores a result: EnhancedDatabase.cache_result
CacheResult(content, analysis_type, model, result, ttl) ==
    /\ result_cache' = cache_result(result_cache, content, analysis_type, model,
                                    result, ttl, db_clock, utc_offset)
    /\ UNCHANGED <<db_clock, utc_offset, batch, jobs, semaphore, results, job_store,
                   api_log, batches>>
    /\ UNCHANGED <<router_vars, cb_vars, cache_vars, hook_vars, install_vars>>

\* a caller looks a result up: EnhancedDatabase.get_cached_result
GetCachedResult(content, analysis_type, model) ==
    LET g == get_cached_result(result_cache, content, analysis_type, model,
                               db_clock, utc_offset)
    IN  /\ lookups < MaxLookups
        /\ lookups' = lookups + 1
        /\ result_cache' = g.cache
        /\ last_get' = [cache |-> "result_cache",
                        key |-> cache_key(content, analysis_type, model),
                        value |-> g.value]
        /\ UNCHANGED response_cache
        /\ UNCHANGED <<db_clock, utc_offset, batch, jobs, semaphore, results,
                       job_store, api_log, batches>>
        /\ UNCHANGED <<router_vars, cb_vars, hook_vars, install_vars>>

\* a caller stores a response: ModelOptimizer.cache_response, ttl in seconds
CacheResponse(prompt_hash, response, ttl) ==
    /\ response_cache' = cache_response(response_cache, prompt_hash, response, ttl,
                                        db_clock)
    /\ UNCHANGED <<last_get, lookups>>
    /\ UNCHANGED <<router_vars, cb_vars, batch_vars, hook_vars, install_vars>>

\* a caller looks a response up: ModelOptimizer.get_cached_response
GetCachedResponse(prompt_hash) ==
    LET g == get_cached_response(response_cache, prompt_hash, db_clock)
    IN  /\ lookups < MaxLookups
        /\ lookups' = lookups + 1
        /\ response_cache' = g.cache
        /\ last_get' = [cache |-> "response_cache", key |-> prompt_hash,
                        value |-> g.value]
        /\ UNCHANGED <<router_vars, cb_vars, batch_vars, hook_vars, install_vars>>

\* time passes, half a time-to-live at a time
DbTick ==
    /\ db_clock + (ttl_hours \div 2) <= MaxDbTime
    /\ db_clock' = db_clock + (ttl_hours \div 2)
    /\ UNCHANGED <<utc_offset, batch, jobs, semaphore, results, result_cache,
                   job_store, api_log, batches>>
    /\ UNCHANGED <<router_vars, cb_vars, cache_vars, hook_vars, install_vars>>

\* the hosts: half a day behind UTC, on UTC, half a day ahead
UtcOffsets == {0 - (ttl_hours \div 2), 0, ttl_hours \div 2}

\* the two caches on any of the hosts; the router, the breaker and the
\* processor are not part of this specification
InitCache ==
    /\ Constructed([first |-> NoAnswer, second |-> "exception"],
                   {}, NONE)
    /\ dispatch = [d \in {"d1"} |-> IdleDispatch]
    /\ sends = 0
    /\ NewCircuitBreaker
    /\ \E offset \in UtcOffsets : NewParallelProcessor(offset)
    /\ NewModelOptimizer
    /\ NewWebhookManager(FALSE)
    /\ NewHost(NoServers)

NextCache ==
    \/ \E content \in Contents, analysis_type \in AnalysisTypes, model \in {DefaultModel},
          result \in CachedValues, ttl \in Ttls :
          CacheResult(content, analysis_type, model, result, ttl)
    \/ \E content \in Contents, analysis_type \in AnalysisTypes, model \in {DefaultModel} :
          GetCachedResult(content, analysis_type, model)
    \/ \E prompt_hash \in PromptHashes, response \in CachedValues, ttl \in Ttls :
          CacheResponse(prompt_hash, response, ttl * SecondsPerHour)
    \/ \E prompt_hash \in PromptHashes : GetCachedResponse(prompt_hash)
    \/ DbTick

\* one batch, processed within the hour on a host on UTC; the router and the
\* breaker are not part of this specification
InitBatch ==
    /\ Constructed([first |-> NoAnswer, second |-> "exception"],
                   {}, NONE)
    /\ dispatch = [d \in {"d1"} |-> IdleDispatch]
    /\ sends = 0
    /\ NewCircuitBreaker
    /\ NewParallelProcessor(0)
    /\ NewModelOptimizer
    /\ NewWebhookManager(FALSE)
    /\ NewHost(NoServers)

NextBatch ==
    \/ \E shapes \in JobLists, limit \in Limits : ProcessBatch(shapes, limit)
    \/ \E j \in 1..MaxJobs, faults \in Faults : TaskStarts(j, faults)
    \/ \E j \in 1..MaxJobs, result \in ApiResults, assigned \in Assigned, faults \in Faults :
          ApiReturns(j, result, assigned, faults)
    \/ \E j \in 1..MaxJobs, faults \in Faults : ApiRaises(j, faults)
    \/ \E update_fails \in BOOLEAN : GatherReturns(update_fails)

\* the router is not part of this specification: it stays as constructed with
\* no local backend and no key
InitCB ==
    /\ Constructed([first |-> NoAnswer, second |-> "exception"],
                   {}, NONE)
    /\ dispatch = [d \in {"d1"} |-> IdleDispatch]
    /\ sends = 0
    /\ NewCircuitBreaker
    /\ NewParallelProcessor(0)
    /\ NewModelOptimizer
    /\ NewWebhookManager(FALSE)
    /\ NewHost(NoServers)

\* ------------------------------------------------------------ WebhookManager
\* json.dumps of a dict whose values are written already: the tokens of the
\* text, the separators as given
RECURSIVE JoinItems(_, _, _)
JoinItems(items, item_separator, key_separator) ==
    IF items = <<>> THEN <<>>
    ELSE <<items[1].key, key_separator>> \o items[1].value
         \o (IF Len(items) > 1 THEN <<item_separator>> ELSE <<>>)
         \o JoinItems(Tail(items), item_separator, key_separator)

json_object(items, item_separator, key_separator) ==
    <<"{">> \o JoinItems(items, item_separator, key_separator) \o <<"}">>

\* the payload of lines 431-435 for the data of lines 692-695, written with the
\* separators given
json_dumps(event_type, key, ttl, item_separator, key_separator) ==
    json_object(<<[key |-> "event", value |-> <<event_type>>],
                  [key |-> "timestamp", value |-> <<"2026-01-01T00:00:00">>],
                  [key |-> "data", value |->
                      json_object(<<[key |-> "key", value |-> <<key>>],
                                    [key |-> "ttl", value |-> <<ttl>>]>>,
                                  item_separator, key_separator)]>>,
                item_separator, key_separator)

\* json.dumps(payload) of line 443: the separators of the standard library
signed_text(event_type, key, ttl) == json_dumps(event_type, key, ttl, ", ", ": ")

\* client.post(url, json=payload): the body httpx writes, with the separators
\* "," and ":" from httpx 0.28 on and those of json.dumps before
request_body(event_type, key, ttl, compact) ==
    IF compact THEN json_dumps(event_type, key, ttl, ",", ":")
    ELSE json_dumps(event_type, key, ttl, ", ", ": ")

\* hmac.new(secret, message, sha256).hexdigest(): a digest agrees with another
\* only for the same secret and the same message
hmac_sha256(secret, message) == <<"hmac-sha256", secret, message>>

\* lines 437-446: the X-Webhook-Signature header, NONE for no header
signature_header(secret, event_type, key, ttl) ==
    IF Truthy(secret) THEN hmac_sha256(secret, signed_text(event_type, key, ttl))
    ELSE NONE

\* a _send_webhook that gives up with the exception of its last attempt
loop_exit_raises(outcome) == IF outcome = "exception" THEN "raise" ELSE "return"

\* lines 448-458: the for loop has run out; the function falls off its end
loop_exit(outcome) == "return"

\* line 458: the delay after the failed attempt number attempt, from 0
backoff(attempt) == 2 ^ attempt

\* what an attempt can end with: a status below 400, a status from 400 on, an
\* exception of client.post
PostOutcomes == {"ok", "http_error", "exception"}

\* client.post of line 451 for listener hook: the request that goes out
post_entry(C, hook, attempt, waited) ==
    [hook |-> hook, url |-> C.hooks[hook].url, attempt |-> attempt, waited |-> waited,
     body |-> C.body, signature |-> C.signature, outcome |-> NONE]

\* lines 697-701: trigger_webhook has returned
store_succeeded(C) ==
    [C EXCEPT !.pc = "done", !.result = [success |-> TRUE, key |-> C.key]]

\* lines 702-706: the except block of store_resilient_data
store_failed(C) ==
    [C EXCEPT !.pc = "done", !.result = [success |-> FALSE, key |-> NONE]]

\* the for loop of trigger_webhook (lines 424-425) from listener hook on, up to
\* the first client.post or to its end
trigger_webhook(C, P, hook) ==
    IF hook > Len(C.hooks)
    THEN [call |-> store_succeeded([C EXCEPT !.hook = hook]), posts |-> P]
    ELSE LET h == C.hooks[hook]
             C1 == [C EXCEPT !.hook = hook, !.attempt = 0, !.pc = "posting",
                             !.body = request_body(h.event_type, C.key, default_ttl,
                                                   httpx_compact),
                             !.signature = signature_header(h.secret_key, h.event_type,
                                                            C.key, default_ttl)]
         IN  [call |-> C1, posts |-> Append(P, post_entry(C1, hook, 0, 0))]

\* the register_webhook tool: lines 751-773
RegisterWebhook(event_type, url, secret) ==
    /\ Len(webhooks) < MaxHooks
    /\ webhooks' = Append(webhooks, [event_type |-> event_type, url |-> url,
                                     secret_key |-> secret, retry_count |-> retry_count])
    /\ UNCHANGED <<mcp_storage, store_call, posts, httpx_compact, stores>>
    /\ UNCHANGED <<router_vars, cb_vars, batch_vars, cache_vars, install_vars>>

\* the listeners trigger_webhook selects: lines 415-422
matching(rows, event_type) ==
    LET Matches(row) == row.event_type = event_type
    IN  SelectSeq(rows, Matches)

\* the store_resilient_data tool up to its first await or to its end: lines
\* 664-707; the INSERT may fail
StoreResilientData(key, value, insert_fails) ==
    /\ stores < MaxStores
    /\ store_call.pc \in {"idle", "done"}
    /\ stores' = stores + 1
    /\ IF insert_fails
       THEN /\ store_call' = store_failed([IdleStore EXCEPT !.key = key, !.value = value])
            /\ posts' = <<>>
            /\ UNCHANGED mcp_storage
       ELSE LET C == [IdleStore EXCEPT !.key = key, !.value = value,
                                       !.hooks = matching(webhooks, "data_stored")]
                t == trigger_webhook(C, <<>>, 1)
            IN  /\ mcp_storage' = [mcp_storage EXCEPT ![key] = value]
                /\ store_call' = t.call
                /\ posts' = t.posts
    /\ UNCHANGED <<webhooks, httpx_compact>>
    /\ UNCHANGED <<router_vars, cb_vars, batch_vars, cache_vars, install_vars>>

\* client.post of line 451 ends with outcome: lines 452-458, then the loops of
\* _send_webhook and trigger_webhook up to the next await
PostEnds(outcome) ==
    LET C == store_call
        P == [posts EXCEPT ![Len(posts)].outcome = outcome]
        last == C.attempt = C.hooks[C.hook].retry_count - 1
        next == trigger_webhook(C, P, C.hook + 1)
    IN  /\ C.pc = "posting"
        /\ IF outcome = "ok"
           THEN store_call' = next.call /\ posts' = next.posts
           ELSE IF outcome = "exception" /\ ~last
           THEN store_call' = [C EXCEPT !.pc = "sleeping"] /\ posts' = P
           ELSE IF ~last
           THEN /\ store_call' = [C EXCEPT !.attempt = C.attempt + 1]
                /\ posts' = Append(P, post_entry(C, C.hook, C.attempt + 1, 0))
           ELSE IF loop_exit(outcome) = "raise"
           THEN store_call' = store_failed(C) /\ posts' = P
           ELSE store_call' = next.call /\ posts' = next.posts
        /\ UNCHANGED <<webhooks, mcp_storage, httpx_compact, stores>>
        /\ UNCHANGED <<router_vars, cb_vars, batch_vars, cache_vars, install_vars>>

\* asyncio.sleep of line 458 is over: the next attempt
SleepEnds ==
    /\ store_call.pc = "sleeping"
    /\ store_call' = [store_call EXCEPT !.pc = "posting", !.attempt = @ + 1]
    /\ posts' = Append(posts, post_entry(store_call, store_call.hook,
                                         store_call.attempt + 1,
                                         backoff(store_call.attempt)))
    /\ UNCHANGED <<webhooks, mcp_storage, httpx_compact, stores>>
    /\ UNCHANGED <<router_vars, cb_vars, batch_vars, cache_vars, install_vars>>

\* the webhook tools on a server whose httpx is of either kind; the router,
\* the breaker, the processor and the caches are not part of this
\* specification
InitWebhook ==
    /\ Constructed([first |-> NoAnswer, second |-> "exception"], {}, NONE)
    /\ dispatch = [d \in {"d1"} |-> IdleDispatch]
    /\ sends = 0
    /\ NewCircuitBreaker
    /\ NewParallelProcessor(0)
    /\ NewModelOptimizer
    /\ \E compact \in BOOLEAN : NewWebhookManager(compact)
    /\ NewHost(NoServers)

NextWebhook ==
    \/ \E event_type \in EventTypes, url \in Urls, secret \in Secrets :
          RegisterWebhook(event_type, url, secret)
    \/ \E key \in StorageKeys, value \in StorageValues, insert_fails \in BOOLEAN :
          StoreResilientData(key, value, insert_fails)
    \/ \E outcome \in PostOutcomes : PostEnds(outcome)
    \/ SleepEnds

\* ------------------------------------------- the installer and the uninstaller
\* create_installation_manifest: the federation names that have an entry
pre_existing_mcps(servers) == {n \in FederationMcps : servers[n] # NONE}

\* merge_configurations: the entries of the MCPs installed are written over
\* whatever mcpServers holds under their names
merge_configurations(servers, installed_mcps) ==
    [n \in McpNames |-> IF n \in installed_mcps THEN "federation" ELSE servers[n]]

\* create_installation_manifest and update_manifest_with_results
installation_manifest(servers, installed_mcps) ==
    [exists |-> TRUE,
     pre_existing_mcps |-> pre_existing_mcps(servers),
     newly_installed_mcps |-> installed_mcps \ pre_existing_mcps(servers)]

\* remove_federation_mcps: the names of the manifest, or without a manifest
\* the federation names, lose their entries
remove_federation_mcps(servers, m) ==
    LET mcps_to_remove == IF m.exists THEN m.newly_installed_mcps ELSE FederationMcps
    IN  [n \in McpNames |-> IF n \in mcps_to_remove THEN NONE ELSE servers[n]]

\* one run of the installer: install(), of which installed_mcps succeed, and
\* write_configuration with the user's answer to confirm_changes
Install(installed_mcps, confirmed) ==
    /\ installs < MaxInstalls
    /\ ~uninstalled
    /\ installs' = installs + 1
    /\ IF confirmed
       THEN /\ manifest' = installation_manifest(config, installed_mcps)
            /\ config' = merge_configurations(config, installed_mcps)
            /\ added' = added \cup {n \in installed_mcps : config[n] = NONE}
       ELSE UNCHANGED <<manifest, config, added>>
    /\ UNCHANGED <<original, uninstalled>>
    /\ UNCHANGED <<router_vars, cb_vars, batch_vars, cache_vars, hook_vars>>

\* one run of the uninstaller: remove_federation_mcps
Uninstall ==
    /\ ~uninstalled
    /\ uninstalled' = TRUE
    /\ config' = remove_federation_mcps(config, manifest)
    /\ UNCHANGED <<manifest, original, added, installs>>
    /\ UNCHANGED <<router_vars, cb_vars, batch_vars, cache_vars, hook_vars>>

\* a host with any entries of its own, under any names; the servers are not
\* part of this specification
InitInstall ==
    /\ Constructed([first |-> NoAnswer, second |-> "exception"], {}, NONE)
    /\ dispatch = [d \in {"d1"} |-> IdleDispatch]
    /\ sends = 0
    /\ NewCircuitBreaker
    /\ NewParallelProcessor(0)
    /\ NewModelOptimizer
    /\ NewWebhookManager(FALSE)
    /\ \E servers \in [McpNames -> {NONE, "user"}] : NewHost(servers)

NextInstall ==
    \/ \E installed_mcps \in SUBSET FederationMcps, confirmed \in BOOLEAN :
          Install(installed_mcps, confirmed)
    \/ Uninstall

\* one caller of a router that found the local backend's listing at start-up,
\* with OPENAI_API_KEY set or no key, and no stored preference
InitReuse ==
    /\ \E probe \in {s \in StartupProbes : s.first.ok}, keys \in SUBSET {"openai"} :
          Constructed(probe, keys, NONE)
    /\ dispatch = [d \in {"d1"} |-> IdleDispatch]
    /\ sends = 0
    /\ NewCircuitBreaker
    /\ NewParallelProcessor(0)
    /\ NewModelOptimizer
    /\ NewWebhookManager(FALSE)
    /\ NewHost(NoServers)

\* calls made one after the other within one minute of the clock
NextReuse ==
    \/ \E d \in Dispatches, message \in Prompts, model \in ReuseArgs :
          sends < MaxReuseSends /\ SendMessage(d, message, model)
    \/ \E d \in Dispatches, response \in Responses : CallReturns(d, response)
    \/ \E d \in Dispatches, e \in Errors : CallRaises(d, e)

\* the registry of a router constructed in any way, refreshed by the
\* refresh_ollama tool with any answer of the local backend
NextRefresh ==
    \/ \E outcome \in ProbeOutcomes \cup BrokenListings : RefreshOllamaModels(outcome)
    \/ Tick

NextCB == Call \/ FuncReturns \/ FuncRaises \/ CbTick

vars == <<router_vars, cb_vars, batch_vars, cache_vars, hook_vars, install_vars>>

Next ==
    \/ \E d \in Dispatches, message \in Prompts, model \in ModelArgs :
          sends < MaxSends /\ SendMessage(d, message, model)
    \/ \E d \in Dispatches, response \in Responses : CallReturns(d, response)
    \/ \E d \in Dispatches, e \in Errors : CallRaises(d, e)
    \/ \E outcome \in ProbeOutcomes : RefreshOllamaModels(outcome)
    \/ Tick

Spec == Init /\ [][Next]_vars

\* two send_message calls that overlap within one minute of the clock and one
\* refresh interval: the event loop interleaves them at their awaits
NextConcurrent ==
    \/ \E d \in Dispatches, message \in Prompts, model \in ModelArgs :
          sends < MaxSends /\ SendMessage(d, message, model)
    \/ \E d \in Dispatches, response \in Responses : CallReturns(d, response)
    \/ \E d \in Dispatches, e \in Errors : CallRaises(d, e)

SpecConcurrent == InitConcurrent /\ [][NextConcurrent]_vars

SpecCB == InitCB /\ [][NextCB]_vars

\* the statistics of a router constructed in any way, fed with the outcomes
\* of backend calls
SpecUsage == Init /\ [][NextUsage]_vars

SpecRefresh == Init /\ [][NextRefresh]_vars

SpecWebhook == InitWebhook /\ [][NextWebhook]_vars

SpecInstall == InitInstall /\ [][NextInstall]_vars

SpecReuse == InitReuse /\ [][NextReuse]_vars

SpecCache == InitCache /\ [][NextCache]_vars

SpecBatch == InitBatch /\ [][NextBatch]_vars

\* the event loop runs every task that can run, and every call of
\* api_client.process returns or raises
SpecBatchFair == SpecBatch /\ WF_vars(NextBatch)

\* ==================================================================== claims
\* the step is a send_message call made by d
Started(d) ==
    /\ sends' = sends + 1
    /\ dispatch[d].pc # "calling"
    /\ dispatch'[d].pc # "idle"

AutoRouted(D) == D.model = NONE \/ D.model = "auto"

NoDuplicates(list) == Cardinality(Range(list)) = Len(list)

\* the part of the candidate list the loop has gone through without skipping
Tried(D) ==
    LET upto == IF D.idx < Len(D.providers) THEN D.idx ELSE Len(D.providers)
        Kept(p) == p \notin D.skipped
    IN  SelectSeq(SubSeq(D.providers, 1, upto), Kept)

\* every failed attempt has its entry, in the order of the attempts
EntriesFollowAttempts(D, n) ==
    /\ Len(D.errors) = n
    /\ \A i \in 1..n : D.errors[i].provider = D.attempts[i] /\ D.errors[i].error \in Errors

\* C1: a dispatch with no model (or "auto") made while the registry says the
\* local backend is available attempts the local backend first, whatever the
\* preference, the remotes' states and the local backend's state at start-up
C1_LocalFirstWhenAvailable ==
    \A d \in Dispatches :
        (dispatch[d].pc # "idle" /\ AutoRouted(dispatch[d]) /\ dispatch[d].om_available)
            => (dispatch[d].attempts # <<>> /\ dispatch[d].attempts[1] = "ollama")

\* C2: the candidates are tried one at a time in list order, a failure moves
\* on to the next candidate that is not cooling down, the call returns the
\* text and the name of the first candidate that succeeds, nothing is tried
\* after that, and the text returned is one a backend produced
C2_SequentialFallback ==
    [][\A d \in Dispatches :
         LET D == dispatch[d]
             E == dispatch'[d]
             later == {j \in (D.idx + 1)..Len(D.providers) :
                          ~(providers'[D.providers[j]].rate_limit_reset # NoTime
                            /\ now < providers'[D.providers[j]].rate_limit_reset)}
         IN  /\ D.pc # "idle" => D.attempts = Tried(D)
             /\ D.pc = "calling" =>
                    /\ D.providers[D.idx] = D.attempts[Len(D.attempts)]
                    /\ EntriesFollowAttempts(D, Len(D.attempts) - 1)
             /\ D.pc = "returned" =>
                    /\ EntriesFollowAttempts(D, Len(D.attempts) - 1)
                    /\ D.provider_used = D.attempts[Len(D.attempts)]
                    /\ D.produced.provider = D.provider_used
                    /\ D.response = D.produced.response
                    /\ D.response \in Responses
             /\ (D.pc = "raised" /\ D.raised = "all_failed") => D.idx = Len(D.providers) + 1
             /\ (D.pc = "calling" /\ Len(E.errors) = Len(D.errors) + 1) =>
                    IF later = {}
                    THEN E.pc = "raised" /\ E.raised = "all_failed"
                    ELSE /\ E.pc = "calling"
                         /\ \A j \in later : E.idx <= j
                         /\ E.idx \in later
             /\ (D.pc = "returned" /\ sends' = sends) => E.pc = "idle"
      ]_vars

\* a call has fallen back from a failed candidate and returned the next one's text
C2_Witness ==
    \E d \in Dispatches :
        /\ dispatch[d].pc = "returned"
        /\ Len(dispatch[d].errors) >= 1
        /\ dispatch[d].provider_used # dispatch[d].providers[1]

\* C3 as amended: the aggregated error has one entry, provider and reason, for
\* every backend the dispatch attempted, and every candidate without an entry
\* was skipped because it was cooling down
C3_EveryAttemptListed ==
    \A d \in Dispatches :
        (dispatch[d].pc = "raised" /\ dispatch[d].raised = "all_failed") =>
            /\ EntriesFollowAttempts(dispatch[d], Len(dispatch[d].attempts))
            /\ Range(dispatch[d].providers) = Range(dispatch[d].attempts) \cup dispatch[d].skipped
            /\ \A p \in dispatch[d].skipped : providers[p].status = RATE_LIMITED

\* C3 as stated: the aggregated error has an entry for every backend of the
\* candidate list
C3_EveryCandidateListed ==
    \A d \in Dispatches :
        (dispatch[d].pc = "raised" /\ dispatch[d].raised = "all_failed") =>
            \A p \in Range(dispatch[d].providers) :
                \E i \in 1..Len(dispatch[d].errors) : dispatch[d].errors[i].provider = p

\* a dispatch has failed with entries for the candidates it called and none
\* for one it skipped
C3_Witness ==
    \E d \in Dispatches :
        /\ dispatch[d].pc = "raised" /\ dispatch[d].raised = "all_failed"
        /\ Len(dispatch[d].errors) >= 1
        /\ dispatch[d].skipped # {}

C5_CircuitOpensAndHolds ==
    [][/\ (failures_since_success' > failures_since_success
           /\ failures_since_success' >= failure_threshold) => state' = "open"
       /\ (state = "open" /\ state' # "open") =>
              (last_failure_time # NoTime /\ clock - last_failure_time > timeout)
       /\ (state = "open" /\ ~(clock - last_failure_time > timeout)) =>
              in_flight' <= in_flight
      ]_vars

\* N failures in a row have opened the circuit and the next call was refused
C5_Witness ==
    /\ state = "open"
    /\ failures_since_success = failure_threshold
    /\ failure_count = failure_threshold
    /\ calls = failure_threshold + 1
    /\ in_flight = 0
    /\ clock - last_failure_time <= timeout

\* C6: a send_message never lists a remote provider that is cooling down and
\* calls none; once a provider's rate_limit_reset has passed, the next
\* send_message lists it again
C6_CooldownThenBack ==
    [][\A d \in Dispatches : Started(d) =>
         \A p \in Configured :
            /\ (providers[p].rate_limit_reset # NoTime /\ now < providers[p].rate_limit_reset)
                  => p \notin Range(dispatch'[d].attempts)
            /\ (providers[p].enabled /\ providers[p].rate_limit_reset # NoTime
                  /\ now >= providers[p].rate_limit_reset)
                  => p \in Range(dispatch'[d].providers)
      ]_vars

FallbackRank(p, preference) ==
    IF p = "ollama" THEN 0 ELSE IF p = preference THEN 1 ELSE 2

\* C8: when the requested model maps to a provider that is not cooling down,
\* the list starts with that provider, holds no provider twice, and goes on
\* with the local backend if the registry says it is available, then the
\* preferred remote, then the other remotes
C8_RequestedFirst ==
    [][\A d \in Dispatches :
         LET E == dispatch'[d]
             s == E.specific
             rest == Tail(E.providers)
         IN  (Started(d) /\ ~AutoRouted(E) /\ s # NONE
                 /\ providers[s].status # RATE_LIMITED
                 /\ ~(providers[s].rate_limit_reset # NoTime
                      /\ now < providers[s].rate_limit_reset)) =>
                /\ E.providers # <<>>
                /\ Head(E.providers) = s
                /\ NoDuplicates(E.providers)
                /\ (E.om_available /\ s # "ollama") => (rest # <<>> /\ Head(rest) = "ollama")
                /\ \A i, j \in 1..Len(rest) :
                      i < j => FallbackRank(rest[i], user_preference)
                                  <= FallbackRank(rest[j], user_preference)
      ]_vars

\* C9: in the list of a dispatch with no model (or "auto"), after the local
\* backend comes the preferred remote if it is available, then the other
\* available remotes from the cheapest per 1000 tokens to the dearest
C9_AscendingPrice ==
    [][\A d \in Dispatches :
         LET E == dispatch'[d]
             rest == Without(E.providers, "ollama")
             usable == {p \in Configured : providers[p].enabled /\ providers[p].status = AVAILABLE}
         IN  (Started(d) /\ AutoRouted(E)) =>
                /\ Range(rest) = usable
                /\ NoDuplicates(rest)
                /\ user_preference \in usable => Head(rest) = user_preference
                /\ \A i, j \in 1..Len(rest) :
                      (i < j /\ rest[i] # user_preference /\ rest[j] # user_preference)
                          => cost_per_1k_tokens(rest[i]) <= cost_per_1k_tokens(rest[j])
      ]_vars

\* C10: a call that returns resets failure_count, and the circuit opens only
\* when failure_threshold failures have come since func last returned
C10_OnlyConsecutiveFailuresCount ==
    [][/\ (in_flight' < in_flight /\ failures_since_success' = 0) => failure_count' = 0
       /\ (state # "open" /\ state' = "open") => failures_since_success' >= failure_threshold
      ]_vars

\* C11: the circuit's state changes only closed -> open, open -> half-open,
\* half-open -> closed and half-open -> open; it becomes half-open by admitting
\* a call once more than timeout seconds lie behind the last failure; a call
\* that returns while it is half-open closes it with failure_count 0; a call
\* that fails while it is half-open opens it with last_failure_time set to the
\* time of that failure
C11_StateCycle ==
    [][/\ state' # state =>
              <<state, state'>> \in {<<"closed", "open">>, <<"open", "half-open">>,
                                     <<"half-open", "closed">>, <<"half-open", "open">>}
       /\ (state = "open" /\ state' = "half-open") =>
              /\ last_failure_time # NoTime
              /\ clock - last_failure_time > timeout
              /\ in_flight' = in_flight + 1
       /\ (state = "open" /\ calls' = calls + 1 /\ last_failure_time # NoTime
              /\ clock - last_failure_time > timeout) =>
              (state' = "half-open" /\ in_flight' = in_flight + 1)
       /\ (state = "half-open" /\ in_flight' < in_flight
              /\ failure_count' <= failure_count) =>
              (state' = "closed" /\ failure_count' = 0)
       /\ (state = "half-open" /\ in_flight' < in_flight
              /\ failure_count' > failure_count) =>
              (state' = "open" /\ last_failure_time' = clock)
      ]_vars

\* the circuit has opened, waited out the cooldown, admitted a call and closed
\* on its return
C11_Witness ==
    /\ state = "closed"
    /\ failure_count = 0
    /\ last_failure_time # NoTime
    /\ clock - last_failure_time > timeout
    /\ calls = failure_threshold + 1
    /\ in_flight = 0

\* the jobs whose tasks hold a permit: at "await api_client.process(job)"
Processing == {j \in DOMAIN jobs : jobs[j].pc = "awaiting"}

Terminal(status) == status \in {"completed", "partial"}

\* C12: at most parallel_limit jobs of the batch hold a permit, and the
\* semaphore counts the permits left
C12_AtMostLimitProcessing ==
    batch.status # "none" =>
        /\ Cardinality(Processing) <= batch.parallel_limit
        /\ semaphore = batch.parallel_limit - Cardinality(Processing)

\* a batch of more jobs than permits has every permit taken and a job waiting
C12_Witness ==
    /\ batch.status = "processing"
    /\ batch.parallel_limit = 2
    /\ Len(jobs) = 3
    /\ Cardinality(Processing) = 2
    /\ \E j \in DOMAIN jobs : jobs[j].pc = "scheduled"

\* C13: a batch whose status is "completed" or "partial" has only jobs that
\* are completed or failed, and it is "completed" exactly when none failed
C13_TerminalAfterJobs ==
    Terminal(batch.status) =>
        /\ \A j \in DOMAIN jobs : jobs[j].status \in {"completed", "failed"}
        /\ batch.status = "completed" <=> (\A j \in DOMAIN jobs : jobs[j].status # "failed")

\* C14: the counts stored for the batch never exceed the number of jobs, and
\* once the batch is terminal and its row written they add up to it
C14_CountsAddUp ==
    /\ batch.completed_count + batch.failed_count <= Len(jobs)
    /\ (Terminal(batch.status) /\ ~batch.raised) =>
           batch.completed_count + batch.failed_count = Len(jobs)

\* the step ends the task of job j with a failure
TaskFails(j) ==
    /\ j \in DOMAIN jobs
    /\ j \in DOMAIN jobs'
    /\ jobs[j].pc # "done"
    /\ jobs'[j].pc = "done"
    /\ jobs'[j].status = "failed"

\* C15: a task that ends with a failure gives its permit back and leaves the
\* other jobs, their rows and their places in gather's result as they were;
\* a job that waits for a permit can get one or a task holding one is still
\* running; and once a job has failed, every job of the batch ends completed
\* or failed and the batch ends
C15_FailureIsIsolated ==
    /\ [](semaphore = batch.parallel_limit - Cardinality(Processing))
    /\ []((batch.status = "processing" /\ \E j \in DOMAIN jobs : jobs[j].pc = "scheduled")
             => (permit_free(semaphore) \/ Processing # {}))
    /\ [][\A j \in 1..MaxJobs : TaskFails(j) =>
             /\ j \notin Processing'
             /\ semaphore' = batch.parallel_limit - Cardinality(Processing')
             /\ \A i \in DOMAIN jobs \ {j} :
                    /\ jobs'[i] = jobs[i]
                    /\ results'[i] = results[i]
                    /\ job_store'[i] = job_store[i]
         ]_vars
    /\ ((\E j \in DOMAIN jobs : jobs[j].status = "failed")
           ~> (/\ Terminal(batch.status)
               /\ \A i \in DOMAIN jobs :
                     jobs[i].pc = "done" /\ jobs[i].status \in {"completed", "failed"}))

\* of three jobs under one permit the first has failed and the last has
\* completed after it
C15_Witness ==
    /\ Terminal(batch.status)
    /\ batch.parallel_limit = 1
    /\ Len(jobs) = 3
    /\ jobs[1].status = "failed"
    /\ jobs[1].error_message = "api error"
    /\ jobs[2].status = "failed"
    /\ jobs[3].status = "completed"
    /\ job_store[3] = "completed"

\* C16: a job is sent to api_client.process only if no call for the same
\* content, analysis type and requested model has returned within the last
\* ttl_hours hours
C16_AtMostOneDispatch ==
    [][\A j \in 1..MaxJobs :
          (/\ j \in DOMAIN jobs
           /\ j \in DOMAIN jobs'
           /\ jobs[j].pc = "scheduled"
           /\ jobs'[j].pc = "awaiting") =>
              ~\E r \in api_log :
                   /\ r.content = jobs[j].content
                   /\ r.analysis_type = jobs[j].analysis_type
                   /\ r.model = jobs[j].requested
                   /\ db_clock - r.at < ttl_hours
      ]_vars

\* C17: a lookup of a key that was stored returns the stored value when less
\* than the time-to-live has passed since it was stored and nothing when the
\* time-to-live or more has passed; a lookup that returns the value counts the
\* hit and leaves the expiry as it was
C17_GetAfterPut ==
    [][lookups' = lookups + 1 =>
          /\ last_get'.cache = "result_cache" =>
                (result_cache[last_get'.key].result # NONE =>
                    IF db_clock - result_cache[last_get'.key].created_at
                          < result_cache[last_get'.key].ttl
                    THEN /\ last_get'.value = result_cache[last_get'.key].result
                         /\ result_cache'[last_get'.key].expires_at
                                = result_cache[last_get'.key].expires_at
                         /\ result_cache'[last_get'.key].hit_count
                                = result_cache[last_get'.key].hit_count + 1
                    ELSE last_get'.value = NONE)
          /\ last_get'.cache = "response_cache" =>
                (response_cache[last_get'.key].response # NONE =>
                    IF time_time(db_clock) - response_cache[last_get'.key].timestamp
                          < response_cache[last_get'.key].ttl
                    THEN /\ last_get'.value = response_cache[last_get'.key].response
                         /\ response_cache'[last_get'.key] = response_cache[last_get'.key]
                    ELSE last_get'.value = NONE)
      ]_vars

\* the dispatches whose backend call returns in this step
Returning == {d \in Dispatches : dispatch[d].pc = "calling" /\ dispatch'[d].pc = "returned"}

\* C18: every step in which a dispatch returns a result adds one to
\* total_requests and one to ollama_requests or to paid_requests, by the
\* provider that answered; no other step changes the three counters; so the
\* counters are the numbers of dispatches that returned, and free plus paid
\* is the total
C18_CountedOncePerSuccess ==
    /\ [](usage_stats.total_requests
             = usage_stats.ollama_requests + usage_stats.paid_requests)
    /\ [][/\ Cardinality(Returning) <= 1
           /\ usage_stats'.total_requests
                 = usage_stats.total_requests + Cardinality(Returning)
           /\ usage_stats'.ollama_requests
                 = usage_stats.ollama_requests
                   + Cardinality({d \in Returning : dispatch'[d].provider_used = "ollama"})
           /\ usage_stats'.paid_requests
                 = usage_stats.paid_requests
                   + Cardinality({d \in Returning : dispatch'[d].provider_used # "ollama"})
         ]_vars

\* of two overlapping dispatches one was served by the local backend and the
\* other, after the local backend failed it, by the only remote configured
C18_Witness ==
    /\ Cardinality(Configured) = 1
    /\ usage_stats.total_requests = 2
    /\ usage_stats.ollama_requests = 1
    /\ usage_stats.paid_requests = 1
    /\ \E d \in Dispatches :
          /\ dispatch[d].pc = "returned"
          /\ dispatch[d].provider_used \in Configured
          /\ dispatch[d].errors # <<>>
          /\ dispatch[d].errors[1].provider = "ollama"

\* the lowest price per 1000 tokens among the providers S, in thousandths of a
\* dollar; one thousandth when there is none
LowestPrice(S) ==
    IF S = {} THEN 1
    ELSE CHOOSE c \in {cost_per_1k_tokens(p) : p \in S} :
            \A q \in S : c <= cost_per_1k_tokens(q)

\* every step in which the local backend answers a dispatch adds the tokens of
\* that call times the lowest price among the remotes in S to cost_saved, and
\* no other step changes cost_saved
SavedAt(S) ==
    IF \E d \in Returning : dispatch'[d].provider_used = "ollama"
    THEN \A d \in Returning :
            usage_stats'.cost_saved
               = float_add(usage_stats.cost_saved,
                           token_cost(EstimatedTokens[dispatch[d].message,
                                                      dispatch'[d].response],
                                      LowestPrice(S)))
    ELSE usage_stats'.cost_saved = usage_stats.cost_saved

\* C20 as amended: the price is that of the cheapest remote whose status is
\* AVAILABLE when the call succeeds, used or not, and $0.001 when there is none
C20_SavedAtCheapestAvailable ==
    [][SavedAt({p \in Configured : providers[p].status = AVAILABLE})]_vars

\* C20 as stated: the price is that of the cheapest remote configured
C20_SavedAtCheapestConfigured ==
    [][SavedAt(Configured)]_vars

\* the local backend has answered once while the cheapest remote configured
\* was rate limited, and the saving was reckoned at the dearer remote's price
C20_Witness ==
    /\ Configured = {"anthropic", "google"}
    /\ providers["google"].status = RATE_LIMITED
    /\ providers["anthropic"].status = AVAILABLE
    /\ providers["anthropic"].usage_count = 0
    /\ usage_stats.ollama_requests = 1
    /\ usage_stats.cost_saved # ZeroCost
    /\ usage_stats.cost_saved
          = token_cost(usage_stats.ollama_tokens, cost_per_1k_tokens("anthropic"))

\* C19 as amended: when only the local backend has answered, nothing was
\* spent, and something was saved if any of the calls counted a token
C19_SavedWhenTokensCounted ==
    (usage_stats.ollama_requests >= 1 /\ usage_stats.paid_requests = 0) =>
        /\ usage_stats.total_cost = ZeroCost
        /\ usage_stats.ollama_tokens > 0 => usage_stats.cost_saved # ZeroCost

\* C19 as stated: when only the local backend has answered, nothing was spent
\* and something was saved
C19_SavedAfterFreeCalls ==
    (usage_stats.ollama_requests >= 1 /\ usage_stats.paid_requests = 0) =>
        /\ usage_stats.total_cost = ZeroCost
        /\ usage_stats.cost_saved # ZeroCost

\* the local backend has answered two requests, one of them without a word
C19_Witness ==
    /\ usage_stats.ollama_requests = 2
    /\ usage_stats.paid_requests = 0
    /\ usage_stats.ollama_tokens = UsageTokens["What is 2+2?", "The answer is 4"]
    /\ usage_stats.cost_saved # ZeroCost
    /\ usage_stats.total_cost = ZeroCost

\* C21: a dispatch started while the registry says the local backend is
\* unavailable (its last probe failed) has no local backend in its candidate
\* list, attempts none, and lists every remote that is enabled and available
C21_UnavailableLocalNotListed ==
    [][\A d \in Dispatches :
         (Started(d) /\ ~dispatch'[d].om_available) =>
             /\ "ollama" \notin Range(dispatch'[d].providers)
             /\ "ollama" \notin Range(dispatch'[d].attempts)
             /\ \A p \in Configured :
                   (providers[p].enabled /\ providers[p].status = AVAILABLE)
                       => p \in Range(dispatch'[d].providers)
      ]_vars

\* C22: a refresh that leaves the local backend available has set the refresh
\* timestamp to the time of the refresh and the metadata to that of the models
\* listed; a refresh that leaves it unavailable leaves the model list, the
\* metadata and the refresh timestamp as they were
C22_FailedRefreshKeepsList ==
    [][now' = now =>
          IF ollama_manager'.is_available
          THEN /\ ollama_manager'.last_refresh = now
               /\ ollama_manager'.model_details = Range(ollama_manager'.available_models)
          ELSE /\ ollama_manager'.available_models = ollama_manager.available_models
               /\ ollama_manager'.model_details = ollama_manager.model_details
               /\ ollama_manager'.last_refresh = ollama_manager.last_refresh
      ]_vars

\* select_provider_for_model found no backend for the model asked for
Unresolved(D) == ~AutoRouted(D) /\ D.specific = NONE

\* C23: a dispatch that names a model no backend resolves has attempted the
\* local backend, when the registry says it is available, before it raises;
\* and the text of the error it raises when every candidate has failed
\* contains the name asked for
C23_UnresolvedTriesLocalAndIsNamed ==
    \A d \in Dispatches :
        (dispatch[d].pc = "raised" /\ Unresolved(dispatch[d])) =>
            /\ dispatch[d].om_available => "ollama" \in Range(dispatch[d].attempts)
            /\ dispatch[d].raised = "all_failed" =>
                   \E line \in Range(aggregated_error(dispatch[d].errors)) :
                       Contains(line, Chars(dispatch[d].model))

\* the secret the listener of a request was registered with
SecretOf(e) == store_call.hooks[e.hook].secret_key

\* C24: every request sent to a listener registered with a secret carries the
\* HMAC-SHA256 of the body that request carries under that secret, and a
\* request to a listener registered without a secret carries no signature
C24_SignatureOverSentBody ==
    \A i \in 1..Len(posts) :
        IF SecretOf(posts[i]) # ""
        THEN posts[i].signature = hmac_sha256(SecretOf(posts[i]), posts[i].body)
        ELSE posts[i].signature = NONE

\* C25: a listener gets at most retry_count attempts, numbered from 0; an
\* attempt follows another to the same listener only when that one failed,
\* whether by exception or by status, and after a delay of 2 to the power of
\* the failed attempt's number
C25_BoundedRetriesWithBackoff ==
    \A i \in 1..Len(posts) :
        /\ posts[i].attempt < store_call.hooks[posts[i].hook].retry_count
        /\ IF i > 1 /\ posts[i - 1].hook = posts[i].hook
           THEN /\ posts[i - 1].outcome \in {"http_error", "exception"}
                /\ posts[i].attempt = posts[i - 1].attempt + 1
                /\ posts[i].waited = 2 ^ posts[i - 1].attempt
           ELSE posts[i].attempt = 0

\* C26: a store_resilient_data call whose INSERT went through reports success
\* and has stored its value whatever became of the deliveries; it has sent at
\* least one request to every matching listener, in their order; and no step
\* of a delivery changes the stored data or the listeners
C26_FailuresNeverEscalate ==
    /\ [](store_call.pc \in {"posting", "sleeping"} =>
             mcp_storage[store_call.key] = store_call.value)
    /\ [](store_call.pc = "done" =>
             /\ posts # <<>> => store_call.result.success
             /\ store_call.result.success =>
                    /\ store_call.result.key = store_call.key
                    /\ mcp_storage[store_call.key] = store_call.value
                    /\ \A h \in 1..Len(store_call.hooks) :
                           \E i \in 1..Len(posts) : posts[i].hook = h
                    /\ \A i, j \in 1..Len(posts) :
                           i < j => posts[i].hook <= posts[j].hook)
    /\ [][store_call.pc \in {"posting", "sleeping"} =>
             (mcp_storage' = mcp_storage
              /\ (webhooks' = webhooks \/ store_call' = store_call))]_vars

\* every attempt at the first of two listeners has failed with an exception,
\* the second listener was served, and the call has reported success
C26_Witness ==
    /\ store_call.pc = "done"
    /\ store_call.result.success
    /\ Len(store_call.hooks) = 2
    /\ Len(posts) = retry_count + 1
    /\ \A i \in 1..retry_count : posts[i].hook = 1 /\ posts[i].outcome = "exception"
    /\ posts[retry_count + 1].hook = 2
    /\ posts[retry_count + 1].outcome = "ok"

\* C27: once the uninstaller has run with a manifest after the installer,
\* every name that had an entry before the first run of the installer still
\* has one, and no name the installer added has one
C27_OnlyInstalledRemoved ==
    (uninstalled /\ manifest.exists /\ installs >= 1) =>
        \A n \in McpNames :
            /\ original[n] # NONE => config[n] # NONE
            /\ n \in added => config[n] = NONE

\* C28: a job whose task has ended after api_client.process returned a result
\* for it is completed and holds that result, and no job is failed while it
\* holds a result
C28_ResultMeansCompleted ==
    \A j \in DOMAIN jobs :
        /\ (jobs[j].pc = "done" /\ jobs[j].result # NONE) => jobs[j].status = "completed"
        /\ jobs[j].status = "failed" => jobs[j].result = NONE

\* the models a call of the local backend for the request of E can be given
\* when they come from that request: a model selected for its prompt, or the
\* installed model its model argument resolves to, by any of the lists
OwnModels(E, lists) ==
    UNION {OptimalOllamaModel[L, E.message]
           \cup (IF AutoRouted(E) THEN {}
                 ELSE {ActualModelName[L, E.model]} \ {NONE}) : L \in lists}

\* C29: every step that starts a call of the local backend for a request
\* passes it a model selected for that request's prompt or resolved from that
\* request's model argument
C29_ModelFromSameRequest ==
    [][\A d \in Dispatches :
         LET E == dispatch'[d]
         IN  (E # dispatch[d] /\ E.pc = "calling" /\ E.providers[E.idx] = "ollama") =>
                E.model_to_use \in OwnModels(E, {ollama_manager.available_models,
                                                 ollama_manager'.available_models})
      ]_vars

\* the sum of the usage counts of the providers S
RECURSIVE UsageCountSum(_, _)
UsageCountSum(S, P) ==
    IF S = {} THEN 0
    ELSE LET p == CHOOSE q \in S : TRUE
         IN  P[p].usage_count + UsageCountSum(S \ {p}, P)

\* the sums of the costs of the providers S, added up in every order
RECURSIVE CostSums(_, _)
CostSums(S, P) ==
    IF S = {} THEN {ZeroCost}
    ELSE UNION {{float_add(x, P[p].total_cost) : x \in CostSums(S \ {p}, P)} : p \in S}

\* a <= b of two floats
FloatLeq(a, b) == a[1] < b[1] \/ (a[1] = b[1] /\ a[2] <= b[2])

\* the counters of the statistics add up
CountersAddUp ==
    /\ usage_stats.total_requests = usage_stats.ollama_requests + usage_stats.paid_requests
    /\ usage_stats.total_tokens = usage_stats.ollama_tokens + usage_stats.paid_tokens
    /\ UsageCountSum(DOMAIN providers, providers) = usage_stats.total_requests

\* the costs of the providers add up, in some order, to the total cost
CostsAddUp ==
    usage_stats.total_cost
       \in CostSums({p \in DOMAIN providers : providers[p].total_cost # ZeroCost}, providers)

\* no counter is lower after a step than before
CountersGrow ==
    /\ \A f \in {"total_requests", "ollama_requests", "paid_requests",
                  "total_tokens", "ollama_tokens", "paid_tokens"} :
          usage_stats[f] <= usage_stats'[f]
    /\ FloatLeq(usage_stats.total_cost, usage_stats'.total_cost)
    /\ FloatLeq(usage_stats.cost_saved, usage_stats'.cost_saved)
    /\ \A p \in DOMAIN providers :
          /\ providers[p].usage_count <= providers'[p].usage_count
          /\ providers[p].tokens_used <= providers'[p].tokens_used
          /\ FloatLeq(providers[p].total_cost, providers'[p].total_cost)

\* C30: in every state total requests = free + paid requests, total tokens =
\* free + paid tokens, the usage counts of the providers add up to total
\* requests and their costs to total cost, and no step lowers a counter
C30_CountersConsistent ==
    /\ [](CountersAddUp /\ CostsAddUp)
    /\ [][CountersGrow]_vars

====
